---- MODULE Spec2Model ----
(***************************************************************************)
(* Pattern-based source analysis scripts of the JavaScript plugin:         *)
(*   validate-fundamentals.js  (skills/fundamentals/references/QUICK-START)*)
(*   es6-converter.js          (skills/modern-javascript/.../MIGRATION-GUIDE)*)
(*   dom-analyzer.js           (skills/dom-apis/scripts)                   *)
(*   analyze-functions.js      (skills/functions/scripts)                  *)
(* and the promise utilities of skills/asynchronous/.../ASYNC-AWAIT-GUIDE   *)
(* and agents/04-asynchronous-javascript: parallelLimit, AsyncQueue,       *)
(* createMutex, retry, Semaphore, debounceAsync, throttleAsync,            *)
(* batchProcess, each with its microtask queue.                            *)
(* Text buffers are sequences of one-character strings; offsets are the    *)
(* 0-based offsets of JavaScript, so the character at offset i is s[i+1].  *)
(***************************************************************************)
EXTENDS Integers, Sequences, FiniteSets, TLC

\* ------------------------------------------------------------------ bounds
\* Longest buffer, counted in lexical fragments (see JsFrags, HtmlFrags).
MaxFrags == 3
\* Most eligible files of a directory in --dir mode.
MaxFiles == 3
\* Longest buffer of the function analyzer, counted in fragments of FnFrags.
MaxFnFrags == 2

\* The most fragments a markup buffer is made of.
MaxHtmlFrags == 4

\* The most tasks parallelLimit is given, and the largest limit.
MaxTasks == 3

\* The most callers of a mutex or semaphore.
MaxCallers == 3

\* The largest maxAttempts option of retry.
MaxAttempts == 3
\* The largest factor and baseDelay options of retry; maxDelay goes up to
\* its square.
MaxFactor == 3

\* The most add() calls on the one-at-a-time queue.
MaxAdds == 4

\* The most calls of a debounced or throttled wrapper.
MaxCalls == 4

\* ------------------------------------------------------- character classes
NUL == "NUL"

Lower == {"a","b","c","d","e","f","g","h","i","j","k","l","m",
          "n","o","p","q","r","s","t","u","v","w","x","y","z"}
Upper == {"A","B","C","D","E","F","G","H","I","J","K","L","M",
          "N","O","P","Q","R","S","T","U","V","W","X","Y","Z"}
Digit == {"0","1","2","3","4","5","6","7","8","9"}
\* \w
WordChar == Lower \cup Upper \cup Digit \cup {"_"}
\* \s (the members a buffer of the model can hold)
SpaceChar == {" ", "\n", "\t", "\r"}

InBuf(s, i) == i >= 0 /\ i < Len(s)
At(s, i) == IF InBuf(s, i) THEN s[i + 1] ELSE NUL
InClass(s, i, class) == InBuf(s, i) /\ s[i + 1] \in class
NotInClass(s, i, class) == InBuf(s, i) /\ s[i + 1] \notin class

\* A literal at offset i.
LitAt(s, i, lit) ==
  /\ i >= 0
  /\ i + Len(lit) <= Len(s)
  /\ \A k \in 1..Len(lit) : s[i + k] = lit[k]

\* End offset of the longest run of characters of class starting at offset i
\* (a greedy class* ; the run is empty when the result is i).
RECURSIVE RunEnd(_, _, _)
RunEnd(s, i, class) ==
  IF InClass(s, i, class) THEN RunEnd(s, i + 1, class) ELSE i

\* \b at offset i: exactly one of the two neighbours is a word character.
WordBoundary(s, i) == InClass(s, i - 1, WordChar) # InClass(s, i, WordChar)

\* String.prototype.substring(from, to) on offsets.
Substring(s, from, to) == SubSeq(s, from + 1, to)

\* Number of newline characters in s.
RECURSIVE CountNewlines(_)
CountNewlines(s) ==
  IF s = <<>> THEN 0
  ELSE (IF Head(s) = "\n" THEN 1 ELSE 0) + CountNewlines(Tail(s))

\* String.prototype.split(sep) for a one-character sep: always at least
\* one piece.
RECURSIVE Split(_, _)
Split(s, sep) ==
  IF \A k \in 1..Len(s) : s[k] # sep THEN <<s>>
  ELSE LET p == CHOOSE k \in 1..Len(s) :
                  s[k] = sep /\ \A j \in 1..(k - 1) : s[j] # sep
       IN <<SubSeq(s, 1, p - 1)>> \o Split(SubSeq(s, p + 1, Len(s)), sep)

\* String.prototype.split('\n'): the lines of s.
SplitLines(s) == Split(s, "\n")

\* String.prototype.lastIndexOf('\n', position): position below 0 is taken
\* as 0, above the length as the length; -1 when there is none.
LastIndexOfNewline(s, position) ==
  LET from == IF position < 0 THEN 0
              ELSE IF position > Len(s) THEN Len(s) ELSE position
      hits == {k \in 0..from : At(s, k) = "\n"}
  IN IF hits = {} THEN -1 ELSE CHOOSE k \in hits : \A j \in hits : j <= k

\* String.prototype.includes(lit).
Includes(s, lit) == \E i \in 0..Len(s) : LitAt(s, i, lit)

\* ------------------------------------------------------------ input buffers
\* Lexical fragments the JavaScript buffers of the model are built from.
JsFrags == { <<"v","a","r"," ">>, <<"\n">>, <<"x">>, <<"=">>, <<"=","=">>,
             <<"!">>, <<"n","u","l","l">>, <<"1","0","0">>, <<"|","|">>,
             <<"!","=","x">> }

\* All concatenations of at most n fragments of frags.
RECURSIVE Buffers(_, _)
Buffers(frags, n) ==
  IF n = 0 THEN { <<>> }
  ELSE LET shorter == Buffers(frags, n - 1)
       IN shorter \cup { b \o f : b \in shorter, f \in frags }

JsBuffers == Buffers(JsFrags, MaxFrags)

\* ------------------------------------------- validate-fundamentals.js: RULES
\* A pattern operator gives the end offset of the match of the rule's regular
\* expression that starts at offset i of s, or -1 when none starts there.

\* noVar: /\bvar\s+\w+/g
noVar_pattern(s, i) ==
  IF WordBoundary(s, i) /\ LitAt(s, i, <<"v","a","r">>)
  THEN LET a == i + 3
           b == RunEnd(s, a, SpaceChar)
           c == RunEnd(s, b, WordChar)
       IN IF b > a /\ c > b THEN c ELSE -1
  ELSE -1

\* looseEquality: /[^!=]==(?!=)|[^!]=(?!=)/g
looseEquality_pattern(s, i) ==
  IF /\ NotInClass(s, i, {"!", "="})
     /\ At(s, i + 1) = "=" /\ At(s, i + 2) = "=" /\ At(s, i + 3) # "="
  THEN i + 3
  ELSE IF /\ NotInClass(s, i, {"!"})
          /\ At(s, i + 1) = "=" /\ At(s, i + 2) # "="
       THEN i + 2
       ELSE -1

\* unusedVars: /(?:const|let|var)\s+(\w+)\s*=/g
unusedVars_pattern(s, i) ==
  LET kw == IF LitAt(s, i, <<"c","o","n","s","t">>) THEN 5
            ELSE IF LitAt(s, i, <<"l","e","t">>) THEN 3
            ELSE IF LitAt(s, i, <<"v","a","r">>) THEN 3
            ELSE 0
      a == i + kw
      b == RunEnd(s, a, SpaceChar)
      c == RunEnd(s, b, WordChar)
      d == RunEnd(s, c, SpaceChar)
  IN IF kw > 0 /\ b > a /\ c > b /\ At(s, d) = "=" THEN d + 1 ELSE -1

\* magicNumbers: /(?<![\w.])(?:[2-9]|\d{2,})(?![\w.])/g
magicNumbers_pattern(s, i) ==
  LET e == RunEnd(s, i, Digit)
      wordOrDot == WordChar \cup {"."}
  IN IF /\ ~InClass(s, i - 1, wordOrDot)
        /\ e > i
        /\ ~InClass(s, e, wordOrDot)
        /\ (e - i >= 2 \/ At(s, i) \in (Digit \ {"0", "1"}))
     THEN e
     ELSE -1

\* preferConst, consoleLog, stringConcatenation, functionExpression and
\* typeofUndefined each need a character no fragment of JsFrags holds
\* ("e"/"t" of let, "c" of console, a quote, "f" of function, "t" of typeof).
OutsideAlphabet_pattern(s, i) == -1

\* RULES in the order of Object.entries(RULES).
RULES == <<
  [name |-> "noVar",               severity |-> "error",   exceptions |-> {}],
  [name |-> "preferConst",         severity |-> "warning", exceptions |-> {}],
  [name |-> "looseEquality",       severity |-> "error",
     exceptions |-> { <<"=","="," ","n","u","l","l">>,
                      <<"!","="," ","n","u","l","l">> }],
  [name |-> "consoleLog",          severity |-> "warning", exceptions |-> {}],
  [name |-> "unusedVars",          severity |-> "info",    exceptions |-> {}],
  [name |-> "magicNumbers",        severity |-> "info",
     exceptions |-> { <<"0">>, <<"1">>, <<"-","1">>, <<"1","0","0">> }],
  [name |-> "stringConcatenation", severity |-> "warning", exceptions |-> {}],
  [name |-> "functionExpression",  severity |-> "info",    exceptions |-> {}],
  [name |-> "typeofUndefined",     severity |-> "info",    exceptions |-> {}] >>

RulePattern(ruleName, s, i) ==
  CASE ruleName = "noVar"         -> noVar_pattern(s, i)
    [] ruleName = "looseEquality" -> looseEquality_pattern(s, i)
    [] ruleName = "unusedVars"    -> unusedVars_pattern(s, i)
    [] ruleName = "magicNumbers"  -> magicNumbers_pattern(s, i)
    [] OTHER                      -> OutsideAlphabet_pattern(s, i)

\* regex.exec(content) of a global regular expression whose lastIndex is
\* from: the leftmost match starting at or after from, as [index, end], or
\* the record with index -1 for null.
Null == [index |-> -1, end |-> -1]

\* An exec that returns the rightmost match at or after from.
RegexExec_rightmost(ruleName, s, from) ==
  LET starts == {i \in from..(Len(s) - 1) : RulePattern(ruleName, s, i) # -1}
  IN IF starts = {} THEN Null
     ELSE LET i == CHOOSE k \in starts : \A j \in starts : k >= j
          IN [index |-> i, end |-> RulePattern(ruleName, s, i)]

RegexExec(ruleName, s, from) ==
  LET starts == {i \in from..(Len(s) - 1) : RulePattern(ruleName, s, i) # -1}
  IN IF starts = {} THEN Null
     ELSE LET i == CHOOSE k \in starts : \A j \in starts : k <= j
          IN [index |-> i, end |-> RulePattern(ruleName, s, i)]

\* ------------------------------------------------------------------ state
VARIABLES
  \* validate-fundamentals.js
  args,        \* process.argv.slice(2): "none", "file" or "dir"
  vfs,         \* the eligible files in traversal order: [readable, content]
  vpc,         \* position in main / validateFile ("idle": tool not run)
  fileIdx,     \* index in vfs of the file validateFile is working on
  ruleIdx,     \* index in RULES of the rule being applied
  lastIndex,   \* regex.lastIndex of the rule's regular expression
  vResults,    \* validateFile's results object
  vAll,        \* main's results array
  printed,     \* how many results printResults has printed
  exitCode,    \* process exit code, -1 while the process runs
  \* es6-converter.js
  sArgs,       \* process.argv.slice(2): "none" (or --help) or "file";
               \* "module": analyzeFile called through module.exports
  sThrows,     \* the caller gave the exported PATTERNS.varDeclaration a
               \* suggestion function that throws
  sExists,     \* fs.existsSync(filePath)
  code,        \* the text read from the file
  spc,         \* position in main / analyzeFile ("idle": tool not run)
  patIdx,      \* index in PATTERNS of the pattern being applied
  sLastIndex,  \* regex.lastIndex of the pattern's regular expression
  sResults,    \* analyzeFile's results object
  sExit,       \* process exit code, -1 while the process runs
  \* dom-analyzer.js
  dArgs,       \* process.argv.slice(2): "none" or "file"
  dExists,     \* fs.existsSync(filePath)
  html,        \* HTMLAnalyzer.html
  dpc,         \* position in main / analyze ("idle": tool not run)
  position,    \* estimateDepth's scan position
  depth,       \* estimateDepth's running depth
  maxDepth,    \* estimateDepth's maxDepth
  issues,      \* HTMLAnalyzer.issues
  statsMaxDepth, \* HTMLAnalyzer.stats.maxDepth
  dExit,       \* process exit code, -1 while the process runs
  \* analyze-functions.js
  fpc,         \* "run" while the process runs ("idle": tool not run)
  regLastIndex, \* lastIndex of the global regular expressions of PATTERNS
               \* that analyzeFile uses with .test()
  fFirst,      \* the first analyzeFile call of the process: [file, result]
  fLast        \* the latest analyzeFile call: [file, result]

VARIABLES
  \* calculateComplexity (analyze-functions.js) called on its own
  cpc,         \* "idle", "call" or "returned"
  cContent,    \* the content argument
  complexity   \* the returned score

VARIABLES
  \* parallelLimit (ASYNC-AWAIT-GUIDE.md)
  ppc,         \* "idle"; "loop": the function body is running; "await":
               \* suspended at `await Promise.race(executing)`; "all":
               \* returned Promise.all(results); "fulfilled"; "rejected"
  tasks,       \* tasks[k]: how task k settles, "fulfilled" or "rejected"
  pLimit,      \* the limit argument
  pIndex,      \* the index of the for...of loop (0-based)
  pResults,    \* the results array: the tasks whose promise was pushed
  executing,   \* the executing set: tasks whose promise is in it
  status,      \* per task: "new", "queued", "running" or "settled"
  jobs,        \* the microtask queue
  raceOn,      \* the tasks the pending Promise.race listens to
  raceWon,     \* how the race settled, "none" while it has not
  settledOrder, \* the tasks in the order in which they settled
  pValue       \* the array the returned promise is fulfilled with

VARIABLES
  \* AsyncQueue with a concurrency limit (ASYNC-AWAIT-GUIDE.md)
  qConcurrency, \* this.concurrency
  qRunning,    \* this.running
  qQueue,      \* this.queue: the tasks waiting, oldest first
  qTasks,      \* qTasks[k]: how the fn of the k-th add() settles
  qStatus,     \* per task: "queued"; "running": fn() was called; "settled":
               \* its promise settled, process() not yet resumed; "done"
  qPromise,    \* per task: the promise add() returned, "pending",
               \* "fulfilled" or "rejected"
  qStarted,    \* the tasks in the order in which fn() was called
  qJobs        \* the microtask queue: the tasks whose await resumes

VARIABLES
  \* createMutex (ASYNC-AWAIT-GUIDE.md)
  locked,      \* the locked flag
  mQueue,      \* queue: the callers whose resolve function waits, oldest first
  mStatus,     \* per caller: "idle"; "waiting": acquire() returned a pending
               \* promise; "granted": the lock was given to it, its await has
               \* not resumed; "holding": it runs after the await; "released"
  mThen,       \* the waiters whose promise has been adopted by the promise
               \* of the async function (its then was called)
  mCalls,      \* the callers in the order of their acquire() calls
  mGrants,     \* the callers in the order in which the lock was given
  mJobs        \* the microtask queue

VARIABLES
  \* retry (ASYNC-AWAIT-GUIDE.md)
  rpc,         \* "idle"; "call": about to call fn; "sleep": awaiting
               \* sleep(delay); "fulfilled"; "rejected"
  rOptions,    \* maxAttempts, baseDelay, maxDelay, factor
  rFn,         \* rFn[i]: how the i-th invocation of fn settles; it returns
               \* the value i or throws the error i
  rAttempt,    \* the loop variable attempt
  rCalls,      \* how many times fn was invoked
  lastError,   \* lastError (0: undefined)
  rRetries,    \* the arguments of the onRetry calls, in order
  rResult      \* the value or error retry settled with

VARIABLES
  \* Semaphore (agents/04-asynchronous-javascript.md)
  semLimit,    \* this.limit
  semRunning,  \* this.running
  semQueue,    \* this.queue: the callers whose resolve function waits
  semStatus,   \* per caller: "idle"; "waiting": suspended inside acquire();
               \* "woken": release() resolved its promise; "returned":
               \* acquire() returned, the caller's await has not resumed;
               \* "holding": the caller runs after its await; "released"
  semJobs      \* the microtask queue

VARIABLES
  \* AsyncQueue, one task at a time (agents/04-asynchronous-javascript.md)
  processing,  \* this.processing
  aQueue,      \* this.queue: the tasks waiting, oldest first
  aTasks,      \* aTasks[k]: how the asyncFn of the k-th add() settles
  aStatus,     \* per task: "queued"; "running": asyncFn() was called;
               \* "settled": its promise settled, process() not yet resumed;
               \* "done"
  aStarted,    \* the tasks in the order in which asyncFn() was called
  aJobs        \* the microtask queue: the tasks whose await resumes

VARIABLES
  \* debounceAsync (ASYNC-AWAIT-GUIDE.md); call k passes the arguments k
  dbFn,        \* dbFn[k]: how fn applied to the arguments k settles
  dbStatus,    \* per call: "timer": its timeout is set; "cleared"; "running":
               \* the timeout fired and fn is pending; "settled": fn's promise
               \* settled, the callback not yet resumed; "done"
  dbPromise,   \* per call: the promise it returned; outcome "pending", or
               \* the arguments and the outcome of the fn result it settled
               \* with
  timeoutId,   \* the call whose timeout timeoutId names (0: undefined)
  pendingResolve, \* the call whose resolve and reject functions
               \* pendingResolve and pendingReject hold (0: undefined)
  dbJobs       \* the microtask queue: the calls whose await resumes

VARIABLES
  \* throttleAsync (ASYNC-AWAIT-GUIDE.md); call k passes the arguments k
  inThrottle,  \* the inThrottle flag
  lastResult,  \* lastResult: the call whose fn result it holds (0: undefined)
  tFn,         \* tFn[k]: how fn applied to the arguments k would settle
  tStatus,     \* per call: "running": fn was invoked and is pending;
               \* "settled": fn's promise settled, the wrapper not yet
               \* resumed; "returned": the wrapper returned lastResult;
               \* "threw": the wrapper's promise was rejected
  tTimers,     \* how many setTimeout callbacks are pending
  tJobs        \* the microtask queue: the calls whose await resumes

VARIABLES
  \* batchProcess (ASYNC-AWAIT-GUIDE.md); task k returns the value k
  bpc,         \* "idle"; "loop": at the loop condition; "await": suspended
               \* at `await Promise.all(...)`; "returned"
  bTasks,      \* tasks.length
  batchSize,   \* the batchSize argument
  bI,          \* the loop variable i
  batch,       \* the tasks of the batch being awaited, in order
  bStatus,     \* per task: "new", "running" or "fulfilled"
  bResults     \* the results array

vVars == <<args, vfs, vpc, fileIdx, ruleIdx, lastIndex, vResults, vAll,
           printed, exitCode>>
sVars == <<sArgs, sThrows, sExists, code, spc, patIdx, sLastIndex, sResults, sExit>>
dVars == <<dArgs, dExists, html, dpc, position, depth, maxDepth, issues,
           statsMaxDepth, dExit>>
fVars == <<fpc, regLastIndex, fFirst, fLast>>
cVars == <<cpc, cContent, complexity>>
pVars == <<ppc, tasks, pLimit, pIndex, pResults, executing, status, jobs, raceOn,
           raceWon, settledOrder, pValue>>
qVars == <<qConcurrency, qRunning, qQueue, qTasks, qStatus, qPromise, qStarted,
           qJobs>>
mVars == <<locked, mQueue, mStatus, mThen, mCalls, mGrants, mJobs>>
rVars == <<rpc, rOptions, rFn, rAttempt, rCalls, lastError, rRetries, rResult>>
semVars == <<semLimit, semRunning, semQueue, semStatus, semJobs>>
aVars == <<processing, aQueue, aTasks, aStatus, aStarted, aJobs>>
dbVars == <<dbFn, dbStatus, dbPromise, timeoutId, pendingResolve, dbJobs>>
tVars == <<inThrottle, lastResult, tFn, tStatus, tTimers, tJobs>>
bVars == <<bpc, bTasks, batchSize, bI, batch, bStatus, bResults>>
asyncVars == <<pVars, qVars, mVars, rVars, semVars, aVars, dbVars, tVars, bVars>>
vars == <<vVars, sVars, dVars, fVars, cVars, asyncVars>>

\* What the actions of one tool leave alone: the other tools' state.
vOthers == <<sVars, dVars, fVars, cVars, asyncVars>>
sOthers == <<vVars, dVars, fVars, cVars, asyncVars>>
dOthers == <<vVars, sVars, fVars, cVars, asyncVars>>
fOthers == <<vVars, sVars, dVars, cVars, asyncVars>>
cOthers == <<vVars, sVars, dVars, fVars, asyncVars>>
toolVars == <<vVars, sVars, dVars, fVars, cVars>>
pOthers == <<toolVars, qVars, mVars, rVars, semVars, aVars, dbVars, tVars, bVars>>
qOthers == <<toolVars, pVars, mVars, rVars, semVars, aVars, dbVars, tVars, bVars>>
mOthers == <<toolVars, pVars, qVars, rVars, semVars, aVars, dbVars, tVars, bVars>>
rOthers == <<toolVars, pVars, qVars, mVars, semVars, aVars, dbVars, tVars, bVars>>
semOthers == <<toolVars, pVars, qVars, mVars, rVars, aVars, dbVars, tVars, bVars>>
aOthers == <<toolVars, pVars, qVars, mVars, rVars, semVars, dbVars, tVars, bVars>>
dbOthers == <<toolVars, pVars, qVars, mVars, rVars, semVars, aVars, tVars, bVars>>
tOthers == <<toolVars, pVars, qVars, mVars, rVars, semVars, aVars, dbVars, bVars>>
bOthers == <<toolVars, pVars, qVars, mVars, rVars, semVars, aVars, dbVars, tVars>>

\* --------------------------------------- validate-fundamentals.js: validateFile
\* A field the source leaves undefined holds 0 (line, column), <<>> (match)
\* or -1 (index). index is the match's start offset, kept beside the issue
\* so that properties can relate the reported position to it.
NewResults == [errors |-> <<>>, warnings |-> <<>>, info |-> <<>>, passed |-> TRUE]

\* The line of the character at the offset rather than of the text before it.
LineNumber_inclusive(content, index) ==
  Len(SplitLines(Substring(content, 0, index + 1)))

\* content.substring(0, match.index).split('\n').length
LineNumber(content, index) == Len(SplitLines(Substring(content, 0, index)))

\* match.index - content.lastIndexOf('\n', match.index - 1)
Column(content, index) == index - LastIndexOfNewline(content, index - 1)

MatchIssue(rule, content, match) ==
  [rule |-> rule.name,
   line |-> LineNumber(content, match.index),
   column |-> Column(content, match.index),
   match |-> Substring(content, match.index, match.end),
   severity |-> rule.severity,
   index |-> match.index]

\* A push that files every finding that is not an error as a warning.
PushIssue_noInfo(results, issue) ==
  IF issue.severity = "error"
  THEN [results EXCEPT !.errors = Append(@, issue), !.passed = FALSE]
  ELSE [results EXCEPT !.warnings = Append(@, issue)]

\* "Add to appropriate array" (validateFile's if / else-if / else).
PushIssue(results, issue) ==
  IF issue.severity = "error"
  THEN [results EXCEPT !.errors = Append(@, issue), !.passed = FALSE]
  ELSE IF issue.severity = "warning"
       THEN [results EXCEPT !.warnings = Append(@, issue)]
       ELSE [results EXCEPT !.info = Append(@, issue)]

\* A catch block that files the finding as a warning.
CatchReadError_asWarning(results) ==
  [results EXCEPT
     !.warnings = Append(@, [rule |-> "file-read", line |-> 0, column |-> 0,
                             match |-> <<>>, severity |-> "warning", index |-> -1]),
     !.passed = FALSE]

\* A catch block that leaves results.passed alone.
CatchReadError_keepsPassed(results) ==
  [results EXCEPT
     !.errors = Append(@, [rule |-> "file-read", line |-> 0, column |-> 0,
                           match |-> <<>>, severity |-> "error", index |-> -1])]

\* The catch block of validateFile.
CatchReadError(results) ==
  [results EXCEPT
     !.errors = Append(@, [rule |-> "file-read", line |-> 0, column |-> 0,
                           match |-> <<>>, severity |-> "error", index |-> -1]),
     !.passed = FALSE]

\* Deepest '{' nesting seen by checkBestPractices' character loop.
RECURSIVE MaxNesting(_, _, _)
MaxNesting(s, current, maxFound) ==
  IF s = <<>> THEN maxFound
  ELSE LET c == IF Head(s) = "{" THEN current + 1
                ELSE IF Head(s) = "}" THEN current - 1 ELSE current
       IN MaxNesting(Tail(s), c, IF c > maxFound THEN c ELSE maxFound)

maxNesting == 4
maxLineLength == 120

RECURSIVE LongLines(_, _)
LongLines(lines, k) ==
  IF k > Len(lines) THEN <<>>
  ELSE (IF Len(lines[k]) > maxLineLength
        THEN << [rule |-> "line-length", line |-> k, column |-> 0,
                 match |-> <<>>, severity |-> "info", index |-> -1] >>
        ELSE <<>>) \o LongLines(lines, k + 1)

checkBestPractices(content, lines, results) ==
  LET strict ==
        IF /\ ~Includes(content, <<"u","s","e"," ","s","t","r","i","c","t">>)
           /\ ~Includes(content, <<"i","m","p","o","r","t"," ">>)
           /\ ~Includes(content, <<"e","x","p","o","r","t"," ">>)
        THEN << [rule |-> "use-strict", line |-> 1, column |-> 0,
                 match |-> <<>>, severity |-> "warning", index |-> -1] >>
        ELSE <<>>
      nesting ==
        IF MaxNesting(content, 0, 0) > maxNesting
        THEN << [rule |-> "nesting-depth", line |-> 0, column |-> 0,
                 match |-> <<>>, severity |-> "warning", index |-> -1] >>
        ELSE <<>>
  IN [results EXCEPT !.warnings = @ \o strict \o nesting,
                     !.info = @ \o LongLines(lines, 1)]

\* An exit code that looks at the last result only.
ExitCodeOf_lastOnly(all) ==
  IF all # <<>> /\ ~all[Len(all)].passed THEN 1 ELSE 0

\* main: "Exit with error code if any file failed".
ExitCodeOf(all) == IF \E k \in 1..Len(all) : ~all[k].passed THEN 1 ELSE 0

\* validateFile entry: a new results object, then readFileSync; a file that
\* cannot be read goes to the catch block.
validateFile_read ==
  /\ vpc = "validateFile"
  /\ IF vfs[fileIdx].readable
     THEN /\ vResults' = NewResults
          /\ ruleIdx' = 1
          /\ lastIndex' = 0
          /\ vpc' = "scan"
     ELSE /\ vResults' = CatchReadError(NewResults)
          /\ UNCHANGED <<ruleIdx, lastIndex>>
          /\ vpc' = "return"
  /\ UNCHANGED <<args, vfs, fileIdx, vAll, printed, exitCode>> /\ UNCHANGED vOthers

\* One turn of `while ((match = regex.exec(content)) !== null)`; on null the
\* forEach moves to the next rule with a fresh regular expression.
validateFile_exec ==
  /\ vpc = "scan"
  /\ LET content == vfs[fileIdx].content
         rule == RULES[ruleIdx]
         match == RegexExec(rule.name, content, lastIndex)
     IN IF match = Null
        THEN /\ lastIndex' = 0
             /\ IF ruleIdx < Len(RULES)
                THEN ruleIdx' = ruleIdx + 1 /\ vpc' = "scan"
                ELSE ruleIdx' = ruleIdx /\ vpc' = "best"
             /\ UNCHANGED vResults
        ELSE /\ vResults' = PushIssue(vResults, MatchIssue(rule, content, match))
             /\ lastIndex' = match.end
             /\ UNCHANGED <<ruleIdx, vpc>>
  /\ UNCHANGED <<args, vfs, fileIdx, vAll, printed, exitCode>> /\ UNCHANGED vOthers

validateFile_checkBestPractices ==
  /\ vpc = "best"
  /\ LET content == vfs[fileIdx].content
     IN vResults' = checkBestPractices(content, SplitLines(content), vResults)
  /\ vpc' = "return"
  /\ UNCHANGED <<args, vfs, fileIdx, ruleIdx, lastIndex, vAll, printed, exitCode>> /\ UNCHANGED vOthers

\* `return results`: main (or validateDirectory) pushes it and goes on to
\* the next file; printing starts only when every file has been validated.
validateFile_return ==
  /\ vpc = "return"
  /\ vAll' = Append(vAll, vResults)
  /\ IF fileIdx < Len(vfs)
     THEN fileIdx' = fileIdx + 1 /\ vpc' = "validateFile"
     ELSE fileIdx' = fileIdx /\ vpc' = "print"
  /\ UNCHANGED <<args, vfs, ruleIdx, lastIndex, vResults, printed, exitCode>> /\ UNCHANGED vOthers

\* ----------------------------------------------- validate-fundamentals.js: main
main_start ==
  /\ vpc = "main"
  /\ IF args = "none"
     THEN exitCode' = 0 /\ vpc' = "exited" /\ UNCHANGED fileIdx
     ELSE /\ UNCHANGED exitCode
          /\ IF Len(vfs) = 0
             THEN vpc' = "print" /\ UNCHANGED fileIdx
             ELSE vpc' = "validateFile" /\ fileIdx' = 1
  /\ UNCHANGED <<args, vfs, ruleIdx, lastIndex, vResults, vAll, printed>> /\ UNCHANGED vOthers

\* results.forEach(printResults), one result at a time.
main_printResults ==
  /\ vpc = "print"
  /\ printed < Len(vAll)
  /\ printed' = printed + 1
  /\ UNCHANGED <<args, vfs, vpc, fileIdx, ruleIdx, lastIndex, vResults, vAll,
                 exitCode>>
  /\ UNCHANGED vOthers

main_exit ==
  /\ vpc = "print"
  /\ printed = Len(vAll)
  /\ exitCode' = ExitCodeOf(vAll)
  /\ vpc' = "exited"
  /\ UNCHANGED <<args, vfs, fileIdx, ruleIdx, lastIndex, vResults, vAll, printed>> /\ UNCHANGED vOthers

\* Contents of the files of a directory in --dir mode: no finding but the
\* use-strict warning, a noVar error, a magicNumbers info.
DirContents == { <<"x">>, <<"v","a","r"," ","x">>, <<"1","0","0">> }
DirFiles == { [readable |-> TRUE, content |-> c] : c \in DirContents }
              \cup { [readable |-> FALSE, content |-> <<>>] }

RECURSIVE Directories(_)
Directories(n) ==
  IF n = 0 THEN { <<>> }
  ELSE LET shorter == Directories(n - 1)
       IN shorter \cup { Append(d, f) : d \in shorter, f \in DirFiles }

vIdle ==
  /\ args = "none" /\ vfs = <<>> /\ vpc = "idle" /\ fileIdx = 0
  /\ ruleIdx = 0 /\ lastIndex = 0 /\ vResults = NewResults /\ vAll = <<>>
  /\ printed = 0 /\ exitCode = -1

vInit ==
  /\ vpc = "main" /\ fileIdx = 0 /\ ruleIdx = 0 /\ lastIndex = 0
  /\ vResults = NewResults /\ vAll = <<>> /\ printed = 0 /\ exitCode = -1
  /\ \/ args = "none" /\ vfs = <<>>
     \/ /\ args = "file"
        /\ vfs \in { <<[readable |-> TRUE, content |-> c]>> : c \in JsBuffers }
                   \cup { <<[readable |-> FALSE, content |-> <<>>]>> }
     \/ args = "dir" /\ vfs \in Directories(MaxFiles)

vNext ==
  \/ main_start
  \/ validateFile_read
  \/ validateFile_exec
  \/ validateFile_checkBestPractices
  \/ validateFile_return
  \/ main_printResults
  \/ main_exit


\* ---------------------------------------------------- es6-converter.js: PATTERNS
\* varDeclaration: /\bvar\s+(\w+)\s*=/g ; the capture group is [b, c).
es6_varDeclaration_groups(s, i) ==
  LET a == i + 3
      b == RunEnd(s, a, SpaceChar)
      c == RunEnd(s, b, WordChar)
      d == RunEnd(s, c, SpaceChar)
  IN IF /\ WordBoundary(s, i) /\ LitAt(s, i, <<"v","a","r">>)
        /\ b > a /\ c > b /\ At(s, d) = "="
     THEN [end |-> d + 1, from |-> b, to |-> c]
     ELSE [end |-> -1, from |-> -1, to |-> -1]

es6_varDeclaration_pattern(s, i) == es6_varDeclaration_groups(s, i).end

\* looseEquality: /[^!=]==[^=]/g
es6_looseEquality_pattern(s, i) ==
  IF /\ NotInClass(s, i, {"!", "="})
     /\ At(s, i + 1) = "=" /\ At(s, i + 2) = "="
     /\ NotInClass(s, i + 3, {"="})
  THEN i + 4
  ELSE -1

\* looseInequality: /!=[^=]/g
es6_looseInequality_pattern(s, i) ==
  IF At(s, i) = "!" /\ At(s, i + 1) = "=" /\ NotInClass(s, i + 2, {"="})
  THEN i + 3
  ELSE -1

\* End of a quoted string ['"][^'"]*['"] starting at offset i, or -1.
QuotedEnd(s, i) ==
  LET quotes == {"'", "\""}
      e == RunEnd(s, i + 1, {c \in {s[k] : k \in 1..Len(s)} : c \notin quotes})
  IN IF InClass(s, i, quotes) /\ InClass(s, e, quotes) THEN e + 1 ELSE -1

\* orDefault: /(\w+)\s*\|\|\s*(['"][^'"]*['"]|\d+|true|false|null|\[\]|\{\})/g
es6_orDefault_pattern(s, i) ==
  LET a == RunEnd(s, i, WordChar)
      b == RunEnd(s, a, SpaceChar)
      c == RunEnd(s, b + 2, SpaceChar)
      d == RunEnd(s, c, Digit)
  IN IF a > i /\ LitAt(s, b, <<"|","|">>)
     THEN IF QuotedEnd(s, c) # -1 THEN QuotedEnd(s, c)
          ELSE IF d > c THEN d
          ELSE IF LitAt(s, c, <<"t","r","u","e">>) THEN c + 4
          ELSE IF LitAt(s, c, <<"f","a","l","s","e">>) THEN c + 5
          ELSE IF LitAt(s, c, <<"n","u","l","l">>) THEN c + 4
          ELSE IF LitAt(s, c, <<"[","]">>) THEN c + 2
          ELSE IF LitAt(s, c, <<"{","}">>) THEN c + 2
          ELSE -1
     ELSE -1

\* PATTERNS in the order of Object.entries(PATTERNS). The patterns not named
\* in PatternAt each need a character no fragment of JsFrags holds (":", ".",
\* a quote, "&", or a letter of function, Object, arguments, console,
\* require, module).
PATTERNS == <<
  [name |-> "varDeclaration",     severity |-> "warning", suggestion |-> "function"],
  [name |-> "functionExpression", severity |-> "info",    suggestion |-> "function"],
  [name |-> "anonymousFunction",  severity |-> "info",    suggestion |-> "none"],
  [name |-> "stringConcat",       severity |-> "info",    suggestion |-> "none"],
  [name |-> "propertyLonghand",   severity |-> "info",    suggestion |-> "function"],
  [name |-> "bindThis",           severity |-> "warning", suggestion |-> "none"],
  [name |-> "objectAssign",       severity |-> "info",    suggestion |-> "string"],
  [name |-> "arrayConcat",        severity |-> "info",    suggestion |-> "function"],
  [name |-> "argumentsKeyword",   severity |-> "warning", suggestion |-> "none"],
  [name |-> "indexOfCheck",       severity |-> "info",    suggestion |-> "none"],
  [name |-> "forLoop",            severity |-> "info",    suggestion |-> "none"],
  [name |-> "callbackPattern",    severity |-> "info",    suggestion |-> "none"],
  [name |-> "looseEquality",      severity |-> "warning", suggestion |-> "none"],
  [name |-> "looseInequality",    severity |-> "warning", suggestion |-> "none"],
  [name |-> "consoleLog",         severity |-> "info",    suggestion |-> "none"],
  [name |-> "requireStatement",   severity |-> "info",    suggestion |-> "function"],
  [name |-> "moduleExports",      severity |-> "info",    suggestion |-> "none"],
  [name |-> "orDefault",          severity |-> "info",    suggestion |-> "none"],
  [name |-> "nestedAccess",       severity |-> "info",    suggestion |-> "none"] >>

PatternAt(patternName, s, i) ==
  CASE patternName = "varDeclaration"  -> es6_varDeclaration_pattern(s, i)
    [] patternName = "looseEquality"   -> es6_looseEquality_pattern(s, i)
    [] patternName = "looseInequality" -> es6_looseInequality_pattern(s, i)
    [] patternName = "orDefault"       -> es6_orDefault_pattern(s, i)
    [] OTHER                           -> OutsideAlphabet_pattern(s, i)

\* regex.exec(code) for a pattern of PATTERNS (see RegexExec).
PatternExec(patternName, s, from) ==
  LET starts == {i \in from..(Len(s) - 1) : PatternAt(patternName, s, i) # -1}
  IN IF starts = {} THEN Null
     ELSE LET i == CHOOSE k \in starts : \A j \in starts : k <= j
          IN [index |-> i, end |-> PatternAt(patternName, s, i)]

\* ---------------------------------------------------- es6-converter.js: analyzeFile
es6_NewResults ==
  [totalIssues |-> 0,
   byCategory |-> [error |-> <<>>, warning |-> <<>>, info |-> <<>>]]

\* String.prototype.trim().
RECURSIVE TrimLeft(_)
TrimLeft(s) ==
  IF s # <<>> /\ Head(s) \in SpaceChar THEN TrimLeft(Tail(s)) ELSE s
RECURSIVE TrimRight(_)
TrimRight(s) ==
  IF s # <<>> /\ s[Len(s)] \in SpaceChar
  THEN TrimRight(SubSeq(s, 1, Len(s) - 1)) ELSE s
Trim(s) == TrimRight(TrimLeft(s))

\* config.suggestion(...match) of the patterns a buffer of the model can
\* match: only varDeclaration has one, `const ${varName} =`. <<>> is "no
\* suggestion property".
Suggestion(patternName, s, match) ==
  IF patternName = "varDeclaration"
  THEN LET g == es6_varDeclaration_groups(s, match.index)
       IN <<"c","o","n","s","t"," ">> \o Substring(s, g.from, g.to) \o <<" ","=">>
  ELSE <<>>

\* The issue analyzeFile builds for a match (index: see MatchIssue).
es6_Issue(config, s, match) ==
  LET lines == SplitLines(s)
      lineNumber == LineNumber(s, match.index)
  IN [pattern |-> config.name,
      line |-> lineNumber,
      column |-> Column(s, match.index),
      match |-> Substring(s, match.index, match.end),
      context |-> Trim(lines[lineNumber]),
      suggestion |-> Suggestion(config.name, s, match),
      index |-> match.index]

\* results.byCategory[config.severity].push(issue); results.totalIssues++
es6_Push(results, severity, issue) ==
  [results EXCEPT !.byCategory[severity] = Append(@, issue),
                  !.totalIssues = @ + 1]

\* generateReport's return value.
es6_generateReport(results) == Len(results.byCategory.warning) = 0

\* main, or the program that requires the module, up to the call of
\* analyzeFile.
es6_main_start ==
  /\ spc = "main"
  /\ IF sArgs = "none"
     THEN sExit' = 0 /\ spc' = "exited"
     ELSE IF sArgs = "file" /\ ~sExists
          THEN sExit' = 1 /\ spc' = "exited"
          ELSE UNCHANGED sExit /\ spc' = "scan"
  /\ patIdx' = 1
  /\ sLastIndex' = 0
  /\ sResults' = es6_NewResults
  /\ UNCHANGED <<sArgs, sThrows, sExists, code>> /\ UNCHANGED sOthers

\* One turn of `while ((match = regex.exec(code)) !== null)`. The call of
\* config.suggestion(...match) is not in a try block: a suggestion function
\* that throws ends analyzeFile with the exception ("threw").
es6_analyzeFile_exec ==
  /\ spc = "scan"
  /\ LET config == PATTERNS[patIdx]
         match == PatternExec(config.name, code, sLastIndex)
     IN IF match = Null
        THEN /\ sLastIndex' = 0
             /\ IF patIdx < Len(PATTERNS)
                THEN patIdx' = patIdx + 1 /\ spc' = "scan"
                ELSE /\ patIdx' = patIdx
                     /\ spc' = (IF sArgs = "module" THEN "returned" ELSE "report")
             /\ UNCHANGED sResults
        ELSE IF config.suggestion = "function" /\ sThrows
             THEN /\ spc' = "threw"
                  /\ UNCHANGED <<sResults, sLastIndex, patIdx>>
             ELSE /\ sResults' = es6_Push(sResults, config.severity,
                                          es6_Issue(config, code, match))
                  /\ sLastIndex' = match.end
                  /\ UNCHANGED <<patIdx, spc>>
  /\ UNCHANGED <<sArgs, sThrows, sExists, code, sExit>> /\ UNCHANGED sOthers

\* const passed = generateReport(results); process.exit(passed ? 0 : 1)
es6_main_exit ==
  /\ spc = "report"
  /\ sExit' = (IF es6_generateReport(sResults) THEN 0 ELSE 1)
  /\ spc' = "exited"
  /\ UNCHANGED <<sArgs, sThrows, sExists, code, patIdx, sLastIndex, sResults>> /\ UNCHANGED sOthers

sIdle ==
  /\ sArgs = "none" /\ sThrows = FALSE /\ sExists = FALSE /\ code = <<>> /\ spc = "idle"
  /\ patIdx = 0 /\ sLastIndex = 0 /\ sResults = es6_NewResults /\ sExit = -1

sInit ==
  /\ spc = "main" /\ patIdx = 0 /\ sLastIndex = 0
  /\ sResults = es6_NewResults /\ sExit = -1
  /\ \/ sArgs = "none" /\ sThrows = FALSE /\ sExists = FALSE /\ code = <<>>
     \/ sArgs = "file" /\ sThrows = FALSE /\ sExists = FALSE /\ code = <<>>
     \/ sArgs = "file" /\ sThrows = FALSE /\ sExists = TRUE /\ code \in JsBuffers
     \/ sArgs = "module" /\ sThrows \in BOOLEAN /\ sExists = TRUE
          /\ code \in JsBuffers

sNext ==
  \/ es6_main_start
  \/ es6_analyzeFile_exec
  \/ es6_main_exit

\* ------------------------------------------------------- dom-analyzer.js
\* Lexical fragments the markup buffers of the model are built from.
HtmlFrags == { <<"<","p",">">>, <<"<","/","p",">">>, <<"<","b","r",">">>,
               <<"<","p","/",">">>, <<"<","i","m","g",">">>,
               <<"<","i","m","g"," ","a","l","t","=","a",">">>,
               <<"<","!","-","-">>, <<"-","-",">">>, <<"x">> }

HtmlBuffers == Buffers(HtmlFrags, MaxHtmlFrags)

\* String.prototype.indexOf(c, from) for a one-character c.
IndexOf(s, c, from) ==
  LET hits == {k \in from..(Len(s) - 1) : k >= 0 /\ s[k + 1] = c}
  IN IF hits = {} THEN -1 ELSE CHOOSE k \in hits : \A j \in hits : k <= j

StartsWith(s, lit) == LitAt(s, 0, lit)
EndsWith(s, lit) == LitAt(s, Len(s) - Len(lit), lit)

\* /\bname=/.test(attrs)
HasAttr(attrs, name) ==
  \E i \in 0..Len(attrs) :
     WordBoundary(attrs, i) /\ LitAt(attrs, i, name \o <<"=">>)

\* imgPattern: /<img\b([^>]*)>/gi at offset i: the offset of the closing '>',
\* the attributes being [i + 4, that offset); -1 when there is no match.
imgPattern(s, i) ==
  IF LitAt(s, i, <<"<","i","m","g">>) /\ WordBoundary(s, i + 4)
  THEN IndexOf(s, ">", i + 4)
  ELSE -1

\* The issues analyzeImages pushes, image by image from offset from on.
RECURSIVE analyzeImages(_, _)
analyzeImages(s, from) ==
  LET starts == {i \in from..(Len(s) - 1) : imgPattern(s, i) # -1}
  IN IF starts = {} THEN <<>>
     ELSE LET i == CHOOSE k \in starts : \A j \in starts : k <= j
              close == imgPattern(s, i)
              attrs == Substring(s, i + 4, close)
          IN (IF ~HasAttr(attrs, <<"a","l","t">>)
              THEN << [type |-> "error", category |-> "a11y",
                       message |-> "Image missing alt attribute"] >>
              ELSE <<>>)
             \o (IF \/ ~HasAttr(attrs, <<"w","i","d","t","h">>)
                    \/ ~HasAttr(attrs, <<"h","e","i","g","h","t">>)
                 THEN << [type |-> "warning", category |-> "performance",
                          message |-> "Image missing width/height attributes"] >>
                 ELSE <<>>)
             \o analyzeImages(s, close + 1)

\* Number of matches of /<h{level}\b/gi.
HeadingCount(s, level) ==
  Cardinality({i \in 0..(Len(s) - 1) :
                 LitAt(s, i, <<"<", "h", level>>) /\ WordBoundary(s, i + 3)})

\* The issues analyzeHeadings pushes.
analyzeHeadings(s) ==
  LET levels == <<"1","2","3","4","5","6">>
      count(k) == HeadingCount(s, levels[k])
      skipped(k) ==
        /\ count(k) = 0
        /\ k < 6
        /\ \E j \in 1..(k - 1) : count(j) > 0
        /\ \E j \in (k + 1)..6 : count(j) > 0
      Skips[k \in 1..7] ==
        IF k = 7 THEN <<>>
        ELSE (IF skipped(k)
              THEN << [type |-> "warning", category |-> "a11y",
                       message |-> "Heading level skipped"] >>
              ELSE <<>>) \o Skips[k + 1]
  IN (IF count(1) = 0
      THEN << [type |-> "warning", category |-> "a11y",
               message |-> "No H1 heading found"] >>
      ELSE <<>>)
     \o (IF count(1) > 1
         THEN << [type |-> "warning", category |-> "a11y",
                  message |-> "Multiple H1 headings found"] >>
         ELSE <<>>)
     \o Skips[1]

voidElements ==
  { <<"a","r","e","a">>, <<"b","a","s","e">>, <<"b","r">>, <<"c","o","l">>,
    <<"e","m","b","e","d">>, <<"h","r">>, <<"i","m","g">>,
    <<"i","n","p","u","t">>, <<"l","i","n","k">>, <<"m","e","t","a">>,
    <<"p","a","r","a","m">>, <<"s","o","u","r","c","e">>,
    <<"t","r","a","c","k">>, <<"w","b","r">> }

\* tag.match(/<([a-z]+)/i)?.[1]?.toLowerCase(): the letters after the first
\* '<' that a letter follows; <<>> when there is no match. (No buffer of the
\* model holds an upper-case letter, so toLowerCase changes nothing.)
TagName(tag) ==
  LET letters == Lower \cup Upper
      starts == {i \in 0..(Len(tag) - 1) :
                   tag[i + 1] = "<" /\ InClass(tag, i + 1, letters)}
  IN IF starts = {} THEN <<>>
     ELSE LET i == CHOOSE k \in starts : \A j \in starts : k <= j
          IN Substring(tag, i + 1, RunEnd(tag, i + 1, letters))

\* A loop body that also counts the tags ending in "/>".
DepthAfter_countsSelfClosing(tag, d) ==
  IF StartsWith(tag, <<"<", "/">>)
  THEN d - 1
  ELSE IF /\ ~StartsWith(tag, <<"<", "!">>)
          /\ ~StartsWith(tag, <<"<", "?">>)
          /\ TagName(tag) # <<>>
          /\ TagName(tag) \notin voidElements
       THEN d + 1
       ELSE d

\* What one tag does to depth in estimateDepth's loop body.
DepthAfter(tag, d) ==
  IF StartsWith(tag, <<"<", "/">>)
  THEN d - 1
  ELSE IF /\ ~EndsWith(tag, <<"/", ">">>)
          /\ ~StartsWith(tag, <<"<", "!">>)
          /\ ~StartsWith(tag, <<"<", "?">>)
          /\ TagName(tag) # <<>>
          /\ TagName(tag) \notin voidElements
       THEN d + 1
       ELSE d

deepNesting == 15

\* main up to estimateDepth: the issues of the checks that run before it
\* (extractIds, checkInlineHandlers, analyzeLinks and analyzeForms need "id=",
\* "on...=", "<a" or "<input", which no fragment of HtmlFrags holds).
dom_main_start ==
  /\ dpc = "main"
  /\ IF dArgs = "none"
     THEN dExit' = 0 /\ dpc' = "exited" /\ UNCHANGED issues
     ELSE IF ~dExists
          THEN dExit' = 1 /\ dpc' = "exited" /\ UNCHANGED issues
          ELSE /\ UNCHANGED dExit
               /\ dpc' = "estimateDepth"
               /\ issues' = analyzeImages(html, 0) \o analyzeHeadings(html)
  /\ position' = 0
  /\ depth' = 0
  /\ maxDepth' = 0
  /\ UNCHANGED <<dArgs, dExists, html, statsMaxDepth>> /\ UNCHANGED dOthers

\* One turn of estimateDepth's while loop; a `break` or the end of the
\* buffer stores stats.maxDepth and pushes the deep-nesting warning.
estimateDepth_step ==
  /\ dpc = "estimateDepth"
  /\ LET nextOpen == IndexOf(html, "<", position)
         tagEnd == IF nextOpen = -1 THEN -1 ELSE IndexOf(html, ">", nextOpen)
         tag == Substring(html, nextOpen, tagEnd + 1)
     IN IF position < Len(html) /\ nextOpen # -1 /\ tagEnd # -1
        THEN /\ depth' = DepthAfter(tag, depth)
             /\ maxDepth' = (IF depth' > depth /\ depth' > maxDepth
                             THEN depth' ELSE maxDepth)
             /\ position' = tagEnd + 1
             /\ UNCHANGED <<dpc, issues, statsMaxDepth>>
        ELSE /\ statsMaxDepth' = maxDepth
             /\ issues' = (IF maxDepth > deepNesting
                           THEN Append(issues,
                                  [type |-> "warning", category |-> "performance",
                                   message |-> "Deep DOM nesting detected"])
                           ELSE issues)
             /\ dpc' = "report"
             /\ UNCHANGED <<position, depth, maxDepth>>
  /\ UNCHANGED <<dArgs, dExists, html, dExit>> /\ UNCHANGED dOthers

\* generateReport's return value: errorCount === 0.
dom_generateReport(analysisIssues) ==
  Cardinality({k \in 1..Len(analysisIssues) : analysisIssues[k].type = "error"}) = 0

\* const passed = generateReport(analysis); process.exit(passed ? 0 : 1)
dom_main_exit ==
  /\ dpc = "report"
  /\ dExit' = (IF dom_generateReport(issues) THEN 0 ELSE 1)
  /\ dpc' = "exited"
  /\ UNCHANGED <<dArgs, dExists, html, position, depth, maxDepth, issues,
                 statsMaxDepth>>
  /\ UNCHANGED dOthers

dIdle ==
  /\ dArgs = "none" /\ dExists = FALSE /\ html = <<>> /\ dpc = "idle"
  /\ position = 0 /\ depth = 0 /\ maxDepth = 0 /\ issues = <<>>
  /\ statsMaxDepth = 0 /\ dExit = -1

dInit ==
  /\ dpc = "main" /\ position = 0 /\ depth = 0 /\ maxDepth = 0
  /\ issues = <<>> /\ statsMaxDepth = 0 /\ dExit = -1
  /\ \/ dArgs = "none" /\ dExists = FALSE /\ html = <<>>
     \/ dArgs = "file" /\ dExists = FALSE /\ html = <<>>
     \/ dArgs = "file" /\ dExists = TRUE /\ html \in HtmlBuffers

dNext ==
  \/ dom_main_start
  \/ estimateDepth_step
  \/ dom_main_exit

\* ------------------------------------------------- analyze-functions.js
\* Lexical fragments the buffers of the function analyzer are built from.
FnFrags == { <<"f","u","n","c","t","i","o","n"," ","f","(","a",")","{">>,
             <<"f","u","n","c","t","i","o","n"," ","f","(","a","=","1",")","{">>,
             <<"\n">> }

FnBuffers == Buffers(FnFrags, MaxFnFrags)

\* functionDeclaration: /function\s+(\w+)\s*\(([^)]*)\)\s*\{/g ; the name is
\* [nameFrom, nameTo), the parameters are [paramsFrom, paramsTo).
functionDeclaration_groups(s, i) ==
  LET a == i + 8
      b == RunEnd(s, a, SpaceChar)
      c == RunEnd(s, b, WordChar)
      d == RunEnd(s, c, SpaceChar)
      p == IndexOf(s, ")", d + 1)
      e == RunEnd(s, p + 1, SpaceChar)
  IN IF /\ LitAt(s, i, <<"f","u","n","c","t","i","o","n">>)
        /\ b > a /\ c > b /\ At(s, d) = "("
        /\ p # -1 /\ At(s, e) = "{"
     THEN [end |-> e + 1, nameFrom |-> b, nameTo |-> c,
           paramsFrom |-> d + 1, paramsTo |-> p]
     ELSE [end |-> -1, nameFrom |-> -1, nameTo |-> -1,
           paramsFrom |-> -1, paramsTo |-> -1]

\* defaultParams: /\(([^)]*=\s*[^,)]+)/g : '(' , then up to the last '=' that
\* comes before the next ')' and is followed by a character other than ','
\* and ')', then the longest run of such characters.
defaultParams_pattern(s, i) ==
  LET close == IndexOf(s, ")", i + 1)
      limit == IF close = -1 THEN Len(s) ELSE close
      eqs == {q \in (i + 1)..(limit - 1) :
                At(s, q) = "=" /\ NotInClass(s, q + 1, {",", ")"})}
  IN IF At(s, i) = "(" /\ eqs # {}
     THEN LET q == CHOOSE k \in eqs : \A j \in eqs : j <= k
              stop == {k \in (q + 1)..Len(s) : ~NotInClass(s, k, {",", ")"})}
          IN CHOOSE k \in stop : \A j \in stop : k <= j
     ELSE -1

\* The decision-point patterns of calculateComplexity, in its order.
\* /\bif\s*\(/g, /\bfor\s*\(/g, /\bwhile\s*\(/g, /\bswitch\s*\(/g, /\bcatch\s*\(/g
KeywordParen(s, i, kw) ==
  LET a == RunEnd(s, i + Len(kw), SpaceChar)
  IN IF WordBoundary(s, i) /\ LitAt(s, i, kw) /\ At(s, a) = "("
     THEN a + 1 ELSE -1

\* /\belse\s+if\s*\(/g
elseIf_pattern(s, i) ==
  LET a == i + 4
      b == RunEnd(s, a, SpaceChar)
      c == RunEnd(s, b + 2, SpaceChar)
  IN IF /\ WordBoundary(s, i) /\ LitAt(s, i, <<"e","l","s","e">>)
        /\ b > a /\ LitAt(s, b, <<"i","f">>) /\ At(s, c) = "("
     THEN c + 1 ELSE -1

\* /\bcase\s+/g
case_pattern(s, i) ==
  LET a == i + 4
      b == RunEnd(s, a, SpaceChar)
  IN IF WordBoundary(s, i) /\ LitAt(s, i, <<"c","a","s","e">>) /\ b > a
     THEN b ELSE -1

\* /\?\s*[^:]+\s*:/g : '?', at least one character other than ':', then the
\* next ':'.
ternary_pattern(s, i) ==
  LET colon == IndexOf(s, ":", i + 1)
  IN IF At(s, i) = "?" /\ colon >= i + 2 THEN colon + 1 ELSE -1

\* The patterns of PATTERNS and of calculateComplexity by name. The patterns
\* of PATTERNS not named here each need a character no fragment of FnFrags
\* holds: "v"/"l"/"s" of var, let, const (functionExpression, arrowFunction,
\* asyncArrow, varDeclaration), ">" of "=>", "y" of async, "*", "." , "r" of
\* return, and nestedCallbacks needs '(' followed by "function" or "(".
FnPattern(name, s, i) ==
  CASE name = "functionDeclaration" -> functionDeclaration_groups(s, i).end
    [] name = "defaultParams"       -> defaultParams_pattern(s, i)
    [] name = "if"     -> KeywordParen(s, i, <<"i","f">>)
    [] name = "elseIf" -> elseIf_pattern(s, i)
    [] name = "for"    -> KeywordParen(s, i, <<"f","o","r">>)
    [] name = "while"  -> KeywordParen(s, i, <<"w","h","i","l","e">>)
    [] name = "switch" -> KeywordParen(s, i, <<"s","w","i","t","c","h">>)
    [] name = "case"   -> case_pattern(s, i)
    [] name = "catch"  -> KeywordParen(s, i, <<"c","a","t","c","h">>)
    [] name = "ternary" -> ternary_pattern(s, i)
    [] name = "and"    -> IF LitAt(s, i, <<"&","&">>) THEN i + 2 ELSE -1
    [] name = "or"     -> IF LitAt(s, i, <<"|","|">>) THEN i + 2 ELSE -1
    [] OTHER           -> OutsideAlphabet_pattern(s, i)

\* The leftmost match among ends, a function from start offsets to end
\* offsets (-1: no match starts there): [index, end], or Null.
Leftmost(ends, starts) ==
  IF starts = {} THEN Null
  ELSE [index |-> CHOOSE k \in starts : \A j \in starts : k <= j,
        end |-> ends[CHOOSE k \in starts : \A j \in starts : k <= j]]

FirstMatch(ends) == Leftmost(ends, {i \in DOMAIN ends : ends[i] # -1})

\* regex.exec(content) with lastIndex from (see RegexExec).
FnExec(name, s, from) ==
  FirstMatch([i \in from..(Len(s) - 1) |-> FnPattern(name, s, i)])

\* content.matchAll(regex) / content.match(regex) of a global regular
\* expression: the matches left to right, each search starting where the
\* previous match ended. Both start at offset 0 whatever the regular
\* expression's lastIndex is, and match leaves lastIndex at 0.
RECURSIVE MatchAllFrom(_, _, _)
MatchAllFrom(name, s, m) ==
  IF m = Null THEN <<>>
  ELSE <<m>> \o MatchAllFrom(name, s, FnExec(name, s, m.end))

MatchAll(name, s) == MatchAllFrom(name, s, FnExec(name, s, 0))

\* regex.test(content) of a global regular expression whose lastIndex is
\* from: the search starts at lastIndex; a match leaves lastIndex at its end,
\* a failure resets it to 0.
TestOutcome(m) ==
  IF m = Null THEN [found |-> FALSE, lastIndex |-> 0]
  ELSE [found |-> TRUE, lastIndex |-> m.end]

RegexTest(name, s, from) == TestOutcome(FnExec(name, s, from))

complexityPatterns ==
  <<"if", "elseIf", "for", "while", "switch", "case", "catch", "ternary",
    "and", "or">>

\* calculateComplexity: 1 plus the number of matches of every pattern.
calculateComplexity(content) ==
  LET Sum[k \in 0..Len(complexityPatterns)] ==
        IF k = 0 THEN 1
        ELSE Sum[k - 1] + Len(MatchAll(complexityPatterns[k], content))
  IN Sum[Len(complexityPatterns)]

\* params.split(',').map(p => p.trim()).filter(Boolean)
ParamList(params) ==
  SelectSeq([k \in 1..Len(Split(params, ",")) |-> Trim(Split(params, ",")[k])],
            LAMBDA x : x # <<>>)

\* The entry analyzeFile pushes to results.functions for a match of
\* functionDeclaration with groups g (its text holds no "=>", "const" or
\* "let", so its type is 'declaration').
FunctionEntryOf(content, index, g) ==
  [name |-> Substring(content, g.nameFrom, g.nameTo),
   params |-> ParamList(Substring(content, g.paramsFrom, g.paramsTo)),
   line |-> LineNumber(content, index),
   type |-> "declaration"]

FunctionEntry(content, match) ==
  FunctionEntryOf(content, match.index,
                  functionDeclaration_groups(content, match.index))

\* The test of the global regular expression name in analyzeFile's "Check
\* for anti-patterns": when it finds a match, the content.match(...) that
\* counts the occurrences leaves lastIndex at 0.
AfterCount(t) == IF t.found THEN [found |-> TRUE, lastIndex |-> 0] ELSE t

AntiPatternTest(name, content, from) == AfterCount(RegexTest(name, content, from))

\* The test of PATTERNS.defaultParams in "Check for good patterns": nothing
\* resets lastIndex after it.
DefaultParamsTest(content, from) == RegexTest("defaultParams", content, from)

closureLimit == 5

\* The patterns analyzeFile counts with content.match / content.matchAll.
CountedPatterns ==
  {"functionDeclaration", "functionExpression", "arrowFunction",
   "asyncFunction", "asyncArrow", "generatorFunction", "closurePattern",
   "higherOrderReturn"}

\* The global regular expressions analyzeFile uses with .test().
TestedPatterns ==
  {"varDeclaration", "nestedCallbacks", "thisInCallback", "defaultParams"}

\* PATTERNS.useStrict (not global) and the two includes() of the same test.
NoUseStrict(content) ==
  /\ ~Includes(content, <<"'","u","s","e"," ","s","t","r","i","c","t","'">>)
  /\ ~Includes(content, <<"\"","u","s","e"," ","s","t","r","i","c","t","\"">>)
  /\ ~Includes(content, <<"i","m","p","o","r","t"," ">>)
  /\ ~Includes(content, <<"e","x","p","o","r","t"," ">>)

\* The results object analyzeFile builds from the matches of the counted
\* patterns and the outcomes of the tests. functionExpression and
\* arrowFunction match no buffer of the model, so results.functions holds
\* the declarations alone.
ResultsOf(content, found, tests) ==
  [patterns |->
     [declarations |-> Len(found["functionDeclaration"]),
      expressions |-> Len(found["functionExpression"]),
      arrows |-> Len(found["arrowFunction"]),
      async |-> Len(found["asyncFunction"]) + Len(found["asyncArrow"]),
      generators |-> Len(found["generatorFunction"]),
      closures |-> Len(found["closurePattern"]),
      higherOrder |-> Len(found["higherOrderReturn"])],
   functions |->
     [k \in 1..Len(found["functionDeclaration"]) |->
        FunctionEntry(content, found["functionDeclaration"][k])],
   issues |->
     (IF tests["varDeclaration"].found
      THEN << [type |-> "warning", message |-> "var"] >> ELSE <<>>)
     \o (IF tests["nestedCallbacks"].found
         THEN << [type |-> "warning", message |-> "nested callbacks"] >>
         ELSE <<>>)
     \o (IF tests["thisInCallback"].found
         THEN << [type |-> "error", message |-> "this in callback"] >>
         ELSE <<>>),
   recommendations |->
     (IF NoUseStrict(content)
      THEN << "Consider adding \"use strict\" directive" >> ELSE <<>>)
     \o (IF /\ ~tests["defaultParams"].found
            /\ Len(found["functionDeclaration"]) > 0
         THEN << "Consider using default parameters for optional arguments" >>
         ELSE <<>>)
     \o (IF Len(found["functionExpression"]) > Len(found["arrowFunction"]) * 2
         THEN << "Consider using arrow functions for shorter syntax" >>
         ELSE <<>>)
     \o (IF Len(found["closurePattern"]) > closureLimit
         THEN << "High closure usage - ensure proper memory management" >>
         ELSE <<>>),
   complexity |-> calculateComplexity(content)]

Outcome(content, tests) ==
  [result |-> ResultsOf(content,
                        [n \in CountedPatterns |-> MatchAll(n, content)],
                        tests),
   regs |-> [n \in TestedPatterns |-> tests[n].lastIndex]]

\* analyzeFile on a readable file whose text is content, with the global
\* regular expressions' lastIndex as in regs: the results object and the
\* lastIndex values it leaves.
analyzeFile(content, regs) ==
  Outcome(content,
          [n \in TestedPatterns |->
             IF n = "defaultParams"
             THEN DefaultParamsTest(content, regs[n])
             ELSE AntiPatternTest(n, content, regs[n])])

\* analyzeFile's catch block: the file cannot be read.
analyzeFile_catch ==
  [patterns |-> [declarations |-> 0, expressions |-> 0, arrows |-> 0,
                 async |-> 0, generators |-> 0, closures |-> 0,
                 higherOrder |-> 0],
   functions |-> <<>>,
   issues |-> << [type |-> "error", message |-> "Could not read file"] >>,
   recommendations |-> <<>>,
   complexity |-> 0]

FnFiles == { [readable |-> TRUE, content |-> c] : c \in FnBuffers }
             \cup { [readable |-> FALSE, content |-> <<>>] }

NoCall == [file |-> [readable |-> FALSE, content |-> <<"-">>],
           result |-> analyzeFile_catch]

\* One call of analyzeFile(filePath): by main, by analyzeDirectory for the
\* next file of the directory, or by a user of the exported function.
analyzeFile_call ==
  /\ fpc = "run"
  /\ \E file \in FnFiles :
     \E r \in { IF file.readable
                 THEN analyzeFile(file.content, regLastIndex)
                 ELSE [result |-> analyzeFile_catch, regs |-> regLastIndex] } :
       /\ fLast' = [file |-> file, result |-> r.result]
       /\ fFirst' = (IF fFirst = NoCall THEN fLast' ELSE fFirst)
       /\ regLastIndex' = r.regs
  /\ UNCHANGED fpc /\ UNCHANGED fOthers

NoLastIndex == [n \in TestedPatterns |-> 0]

fIdle ==
  fpc = "idle" /\ regLastIndex = NoLastIndex /\ fFirst = NoCall /\ fLast = NoCall
fInit ==
  fpc = "run" /\ regLastIndex = NoLastIndex /\ fFirst = NoCall /\ fLast = NoCall
fNext == analyzeFile_call

\* ------------------------------- analyze-functions.js: calculateComplexity
\* Fragments of the buffers calculateComplexity is called on by itself.
CxFrags == { <<"i","f","(">>, <<"e","l","s","e"," ","i","f","(">>,
             <<"f","o","r","(">>, <<"&","&">>, <<"|","|">>,
             <<"?","x",":">>, <<";">>, <<"\n">> }

CxBuffers == Buffers(CxFrags, MaxFrags)

\* A call of calculateComplexity(content) and its return.
calculateComplexity_call ==
  /\ cpc = "call"
  /\ complexity' = calculateComplexity(cContent)
  /\ cpc' = "returned"
  /\ UNCHANGED cContent /\ UNCHANGED cOthers

cIdle == cpc = "idle" /\ cContent = <<>> /\ complexity = 0
cInit == cpc = "call" /\ cContent \in CxBuffers /\ complexity = 0
cNext == calculateComplexity_call

\* --------------------------------------- ASYNC-AWAIT-GUIDE.md: parallelLimit
\* The promise of task k is Promise.resolve().then(() => task()): the call
\* of task() is a microtask ("start"). When the promise settles, its
\* reactions are queued in the order of their registration: cleanup (then at
\* the creation of the promise) before the reactions of the Promise.race
\* calls that came later ("race"). The continuation of the await is one more
\* microtask ("resume"). A task may settle between any two microtasks.
StartJob(k) == [job |-> "start", task |-> k]
CleanupJob(k) == [job |-> "cleanup", task |-> k]
RaceJob(k) == [job |-> "race", task |-> k]
ResumeJob == [job |-> "resume", task |-> 0]

\* The tasks of a set in ascending order.
RECURSIVE Ascending(_)
Ascending(S) ==
  IF S = {} THEN <<>>
  ELSE LET k == CHOOSE m \in S : \A n \in S : m <= n
       IN <<k>> \o Ascending(S \ {k})

\* The array Promise.all(results) is fulfilled with: the value of every
\* promise of results, in the order of results (task k returns k).
PromiseAll_completionOrder(promises, settled) == settled

PromiseAll(promises, settled) == promises

\* One turn of `for (const [index, task] of tasks.entries())`, up to the
\* await or to the next turn; after the last turn, `return
\* Promise.all(results)`.
parallelLimit_iterate ==
  /\ ppc = "loop"
  /\ IF pIndex < Len(tasks)
     THEN LET k == pIndex + 1
              now == executing \cup {k}
          IN /\ pResults' = Append(pResults, k)
             /\ executing' = now
             /\ status' = [status EXCEPT ![k] = "queued"]
             /\ pIndex' = pIndex + 1
             /\ IF Cardinality(now) >= pLimit
                THEN /\ ppc' = "await"
                     /\ raceOn' = now
                     /\ raceWon' = "none"
                     /\ jobs' = Append(jobs, StartJob(k))
                             \o [i \in 1..Cardinality({t \in now : status[t] = "settled"}) |->
                                   RaceJob(Ascending({t \in now : status[t] = "settled"})[i])]
                ELSE /\ jobs' = Append(jobs, StartJob(k))
                     /\ UNCHANGED <<ppc, raceOn, raceWon>>
     ELSE /\ ppc' = "all"
          /\ UNCHANGED <<pIndex, pResults, executing, status, jobs, raceOn, raceWon>>
  /\ UNCHANGED <<tasks, pLimit, settledOrder, pValue>> /\ UNCHANGED pOthers

\* The next microtask runs.
parallelLimit_microtask ==
  /\ ppc \in {"await", "all", "rejected", "fulfilled"}
  /\ jobs # <<>>
  /\ LET j == Head(jobs)
     IN /\ CASE j.job = "start" ->
                  /\ status' = [status EXCEPT ![j.task] = "running"]
                  /\ jobs' = Tail(jobs)
                  /\ UNCHANGED <<executing, raceWon, ppc>>
             [] j.job = "cleanup" ->
                  /\ executing' = executing \ {j.task}
                  /\ jobs' = Tail(jobs)
                  /\ UNCHANGED <<status, raceWon, ppc>>
             [] j.job = "race" ->
                  /\ IF ppc = "await" /\ raceWon = "none" /\ j.task \in raceOn
                     THEN /\ raceWon' = tasks[j.task]
                          /\ jobs' = Append(Tail(jobs), ResumeJob)
                     ELSE /\ jobs' = Tail(jobs)
                          /\ UNCHANGED raceWon
                  /\ UNCHANGED <<executing, status, ppc>>
             [] j.job = "resume" ->
                  /\ ppc' = (IF raceWon = "rejected" THEN "rejected" ELSE "loop")
                  /\ jobs' = Tail(jobs)
                  /\ UNCHANGED <<executing, status, raceWon>>
  /\ UNCHANGED <<tasks, pLimit, pIndex, pResults, raceOn, settledOrder, pValue>>
  /\ UNCHANGED pOthers

\* A running task settles: the reactions of its promise are queued.
parallelLimit_taskSettles ==
  /\ ppc \in {"await", "all", "rejected"}
  /\ \E k \in 1..Len(tasks) :
        /\ status[k] = "running"
        /\ status' = [status EXCEPT ![k] = "settled"]
        /\ settledOrder' = Append(settledOrder, k)
        /\ jobs' = Append(jobs, CleanupJob(k))
                     \o (IF ppc = "await" /\ k \in raceOn
                         THEN <<RaceJob(k)>> ELSE <<>>)
  /\ UNCHANGED <<ppc, tasks, pLimit, pIndex, pResults, executing, raceOn, raceWon,
                 pValue>>
  /\ UNCHANGED pOthers

\* Promise.all(results) settles: fulfilled with the values once every
\* promise is fulfilled, rejected as soon as one is rejected.
parallelLimit_allSettles ==
  /\ ppc = "all"
  /\ IF \E k \in 1..Len(tasks) : status[k] = "settled" /\ tasks[k] = "rejected"
     THEN ppc' = "rejected" /\ UNCHANGED pValue
     ELSE /\ \A k \in 1..Len(tasks) : status[k] = "settled"
          /\ ppc' = "fulfilled"
          /\ pValue' = PromiseAll(pResults, settledOrder)
  /\ UNCHANGED <<tasks, pLimit, pIndex, pResults, executing, status, jobs, raceOn,
                 raceWon, settledOrder>>
  /\ UNCHANGED pOthers

pIdle ==
  /\ ppc = "idle" /\ tasks = <<>> /\ pLimit = 1 /\ pIndex = 0 /\ pResults = <<>>
  /\ executing = {} /\ status = <<>> /\ jobs = <<>> /\ raceOn = {}
  /\ raceWon = "none" /\ settledOrder = <<>> /\ pValue = <<>>

pInit ==
  /\ ppc = "loop" /\ pIndex = 0 /\ pResults = <<>> /\ executing = {}
  /\ jobs = <<>> /\ raceOn = {} /\ raceWon = "none" /\ settledOrder = <<>>
  /\ pValue = <<>>
  /\ pLimit \in 1..MaxTasks
  /\ \E n \in 0..MaxTasks :
        /\ tasks \in [1..n -> {"fulfilled", "rejected"}]
        /\ status = [k \in 1..n |-> "new"]

pNext ==
  \/ parallelLimit_iterate
  \/ parallelLimit_microtask
  \/ parallelLimit_taskSettles
  \/ parallelLimit_allSettles


\* ------------------------------------------ ASYNC-AWAIT-GUIDE.md: AsyncQueue
\* process(), from its call to its first suspension. The loop runs while
\* `this.running < this.concurrency && this.queue.length > 0`; its body
\* shifts the oldest entry, counts it, calls fn() and suspends at the await,
\* so one call starts at most one task. q holds running, queue and the tasks
\* started so far.
AsyncQueue_process_uncounted(q) ==
  IF q.running < qConcurrency /\ q.queue # <<>>
  THEN [running |-> q.running, queue |-> Tail(q.queue),
        started |-> Append(q.started, Head(q.queue))]
  ELSE q

AsyncQueue_process(q) ==
  IF q.running < qConcurrency /\ q.queue # <<>>
  THEN [running |-> q.running + 1, queue |-> Tail(q.queue),
        started |-> Append(q.started, Head(q.queue))]
  ELSE q

\* What the promise of add() becomes after `await fn()`: resolve(result) when
\* fn's promise is fulfilled, reject(error) in the catch when it is rejected.
AsyncQueue_settle_resolvesOnly(outcome) == "fulfilled"

AsyncQueue_settle(outcome) ==
  IF outcome = "fulfilled" THEN "fulfilled" ELSE "rejected"

\* The status of every task once the tasks of `started` have been started.
StatusAfter(old, started) ==
  [k \in DOMAIN old |->
     IF old[k] = "queued" /\ \E i \in 1..Len(started) : started[i] = k
     THEN "running" ELSE old[k]]

\* add(fn): the executor pushes the entry and calls process().
AsyncQueue_add ==
  /\ Len(qTasks) < MaxTasks
  /\ \E outcome \in {"fulfilled", "rejected"} :
       LET k == Len(qTasks) + 1
           q == AsyncQueue_process([running |-> qRunning,
                                    queue |-> Append(qQueue, k),
                                    started |-> qStarted])
       IN /\ qTasks' = Append(qTasks, outcome)
          /\ qPromise' = Append(qPromise, "pending")
          /\ qRunning' = q.running
          /\ qQueue' = q.queue
          /\ qStarted' = q.started
          /\ qStatus' = StatusAfter(Append(qStatus, "queued"), q.started)
  /\ UNCHANGED <<qConcurrency, qJobs>> /\ UNCHANGED qOthers

\* The promise of a running fn() settles: the continuation of the await is
\* queued as a microtask.
AsyncQueue_taskSettles ==
  /\ \E k \in 1..Len(qTasks) :
        /\ qStatus[k] = "running"
        /\ qStatus' = [qStatus EXCEPT ![k] = "settled"]
        /\ qJobs' = Append(qJobs, k)
  /\ UNCHANGED <<qConcurrency, qRunning, qQueue, qTasks, qPromise, qStarted>>
  /\ UNCHANGED qOthers

\* process() resumes after the await: resolve or reject, then the finally
\* block (`this.running--; this.process()`), then the while condition of
\* the resumed call is tested again.
AsyncQueue_resume ==
  /\ qJobs # <<>>
  /\ LET k == Head(qJobs)
         inner == AsyncQueue_process([running |-> qRunning - 1, queue |-> qQueue,
                                      started |-> qStarted])
         q == AsyncQueue_process(inner)
     IN /\ qPromise' = [qPromise EXCEPT ![k] = AsyncQueue_settle(qTasks[k])]
        /\ qRunning' = q.running
        /\ qQueue' = q.queue
        /\ qStarted' = q.started
        /\ qStatus' = StatusAfter([qStatus EXCEPT ![k] = "done"], q.started)
        /\ qJobs' = Tail(qJobs)
  /\ UNCHANGED <<qConcurrency, qTasks>> /\ UNCHANGED qOthers

qIdle ==
  /\ qConcurrency = 1 /\ qRunning = 0 /\ qQueue = <<>> /\ qTasks = <<>>
  /\ qStatus = <<>> /\ qPromise = <<>> /\ qStarted = <<>> /\ qJobs = <<>>

\* new AsyncQueue(concurrency)
qInit ==
  /\ qConcurrency \in 1..MaxTasks
  /\ qRunning = 0 /\ qQueue = <<>> /\ qTasks = <<>>
  /\ qStatus = <<>> /\ qPromise = <<>> /\ qStarted = <<>> /\ qJobs = <<>>

qNext == AsyncQueue_add \/ AsyncQueue_taskSettles \/ AsyncQueue_resume


\* ----------------------------------------- ASYNC-AWAIT-GUIDE.md: createMutex
\* acquire() is an async function. With the lock free it sets the flag and
\* returns: its promise is fulfilled and the caller's await resumes one
\* microtask later ("resume"). Otherwise it returns a new promise whose
\* resolve function is queued; the promise of the async function adopts that
\* promise in a microtask ("thenable") that calls its then, the reaction
\* ("adopt") runs once the promise is fulfilled, and the caller resumes one
\* microtask after that.
MutexJob(kind, k) == [job |-> kind, caller |-> k]

\* The flag after release(): it stays set when a waiter is woken and is
\* cleared only when nobody waits.
LockedAfterRelease_cleared(queue) == FALSE

LockedAfterRelease(queue) == queue # <<>>

createMutex_acquire ==
  /\ \E k \in 1..MaxCallers :
        /\ mStatus[k] = "idle"
        /\ mCalls' = Append(mCalls, k)
        /\ IF ~locked
           THEN /\ locked' = TRUE
                /\ mStatus' = [mStatus EXCEPT ![k] = "granted"]
                /\ mGrants' = Append(mGrants, k)
                /\ mJobs' = Append(mJobs, MutexJob("resume", k))
                /\ UNCHANGED mQueue
           ELSE /\ mQueue' = Append(mQueue, k)
                /\ mStatus' = [mStatus EXCEPT ![k] = "waiting"]
                /\ mJobs' = Append(mJobs, MutexJob("thenable", k))
                /\ UNCHANGED <<locked, mGrants>>
  /\ UNCHANGED mThen /\ UNCHANGED mOthers

\* release(), called by a caller that runs after its await.
createMutex_release ==
  /\ \E k \in 1..MaxCallers :
        /\ mStatus[k] = "holding"
        /\ locked' = LockedAfterRelease(mQueue)
        /\ IF mQueue # <<>>
           THEN LET next == Head(mQueue)
                IN /\ mQueue' = Tail(mQueue)
                   /\ mStatus' = [mStatus EXCEPT ![k] = "released",
                                                 ![next] = "granted"]
                   /\ mGrants' = Append(mGrants, next)
                   /\ mJobs' = IF next \in mThen
                               THEN Append(mJobs, MutexJob("adopt", next))
                               ELSE mJobs
           ELSE /\ mStatus' = [mStatus EXCEPT ![k] = "released"]
                /\ UNCHANGED <<mQueue, mGrants, mJobs>>
  /\ UNCHANGED <<mThen, mCalls>> /\ UNCHANGED mOthers

\* The next microtask runs.
createMutex_microtask ==
  /\ mJobs # <<>>
  /\ LET j == Head(mJobs)
         k == j.caller
     IN CASE j.job = "thenable" ->
               /\ mThen' = mThen \cup {k}
               /\ mJobs' = IF mStatus[k] = "granted"
                           THEN Append(Tail(mJobs), MutexJob("adopt", k))
                           ELSE Tail(mJobs)
               /\ UNCHANGED mStatus
          [] j.job = "adopt" ->
               /\ mJobs' = Append(Tail(mJobs), MutexJob("resume", k))
               /\ UNCHANGED <<mThen, mStatus>>
          [] j.job = "resume" ->
               /\ mStatus' = [mStatus EXCEPT ![k] = "holding"]
               /\ mJobs' = Tail(mJobs)
               /\ UNCHANGED mThen
  /\ UNCHANGED <<locked, mQueue, mCalls, mGrants>> /\ UNCHANGED mOthers

mIdle ==
  /\ locked = FALSE /\ mQueue = <<>> /\ mStatus = <<>> /\ mThen = {}
  /\ mCalls = <<>> /\ mGrants = <<>> /\ mJobs = <<>>

\* createMutex(), and callers that have not called acquire() yet.
mInit ==
  /\ locked = FALSE /\ mQueue = <<>> /\ mThen = {}
  /\ mCalls = <<>> /\ mGrants = <<>> /\ mJobs = <<>>
  /\ mStatus = [k \in 1..MaxCallers |-> "idle"]

mNext == createMutex_acquire \/ createMutex_release \/ createMutex_microtask

\* ----------------------------------------------- ASYNC-AWAIT-GUIDE.md: retry
\* Math.pow(b, e) for a non-negative integer e.
RECURSIVE Pow(_, _)
Pow(b, e) == IF e = 0 THEN 1 ELSE b * Pow(b, e - 1)

\* Math.min(a, b)
Min(a, b) == IF a < b THEN a ELSE b

\* `Math.min(baseDelay * Math.pow(factor, attempt - 1), maxDelay)`
BackoffDelay_uncapped(o, n) == o.baseDelay * Pow(o.factor, n - 1)

BackoffDelay(o, n) == Min(o.baseDelay * Pow(o.factor, n - 1), o.maxDelay)

\* One turn of the loop, from `await fn()` to the return, the throw or the
\* `await sleep(delay)`.
retry_attempt ==
  /\ rpc = "call"
  /\ rAttempt <= rOptions.maxAttempts
  /\ rCalls' = rCalls + 1
  /\ IF rFn[rCalls + 1] = "fulfilled"
     THEN /\ rpc' = "fulfilled"
          /\ rResult' = rCalls + 1
          /\ UNCHANGED <<lastError, rRetries>>
     ELSE /\ lastError' = rCalls + 1
          /\ IF rAttempt = rOptions.maxAttempts
             THEN /\ rpc' = "rejected"
                  /\ rResult' = rCalls + 1
                  /\ UNCHANGED rRetries
             ELSE /\ rRetries' = Append(rRetries,
                                   [attempt |-> rAttempt,
                                    delay |-> BackoffDelay(rOptions, rAttempt),
                                    error |-> rCalls + 1])
                  /\ rpc' = "sleep"
                  /\ UNCHANGED rResult
  /\ UNCHANGED <<rOptions, rFn, rAttempt>> /\ UNCHANGED rOthers

\* sleep(delay) is over: `attempt++` and the loop condition; past the loop,
\* `throw lastError`.
retry_wake ==
  /\ rpc = "sleep"
  /\ rAttempt' = rAttempt + 1
  /\ IF rAttempt + 1 <= rOptions.maxAttempts
     THEN rpc' = "call" /\ UNCHANGED rResult
     ELSE rpc' = "rejected" /\ rResult' = lastError
  /\ UNCHANGED <<rOptions, rFn, rCalls, lastError, rRetries>>
  /\ UNCHANGED rOthers

rIdle ==
  /\ rpc = "idle" /\ rOptions = <<>> /\ rFn = <<>> /\ rAttempt = 0
  /\ rCalls = 0 /\ lastError = 0 /\ rRetries = <<>> /\ rResult = 0

\* retry(fn, options): `let lastError; for (let attempt = 1; ...`
rInit ==
  /\ rpc = "call" /\ rAttempt = 1 /\ rCalls = 0 /\ lastError = 0
  /\ rRetries = <<>> /\ rResult = 0
  /\ rOptions \in [maxAttempts : 1..MaxAttempts, baseDelay : 1..MaxFactor,
                   maxDelay : 1..(MaxFactor * MaxFactor), factor : 1..MaxFactor]
  /\ rFn \in [1..MaxAttempts -> {"fulfilled", "rejected"}]

rNext == retry_attempt \/ retry_wake

\* ------------------------------- agents/04-asynchronous-javascript.md: Semaphore
\* The microtasks: "acquire" resumes acquire() after its await (the waiter
\* counts itself), "caller" resumes the caller after `await
\* semaphore.acquire()`.
SemJob(kind, k) == [job |-> kind, caller |-> k]

\* acquire(), to its return or to its await.
Semaphore_acquire ==
  /\ \E k \in 1..MaxCallers :
        /\ semStatus[k] = "idle"
        /\ IF semRunning < semLimit
           THEN /\ semRunning' = semRunning + 1
                /\ semStatus' = [semStatus EXCEPT ![k] = "returned"]
                /\ semJobs' = Append(semJobs, SemJob("caller", k))
                /\ UNCHANGED semQueue
           ELSE /\ semQueue' = Append(semQueue, k)
                /\ semStatus' = [semStatus EXCEPT ![k] = "waiting"]
                /\ UNCHANGED <<semRunning, semJobs>>
  /\ UNCHANGED semLimit /\ UNCHANGED semOthers

\* release(), called by a caller that runs after its await.
Semaphore_release ==
  /\ \E k \in 1..MaxCallers :
        /\ semStatus[k] = "holding"
        /\ semRunning' = semRunning - 1
        /\ IF semQueue # <<>>
           THEN /\ semQueue' = Tail(semQueue)
                /\ semStatus' = [semStatus EXCEPT ![k] = "released",
                                                  ![Head(semQueue)] = "woken"]
                /\ semJobs' = Append(semJobs, SemJob("acquire", Head(semQueue)))
           ELSE /\ semStatus' = [semStatus EXCEPT ![k] = "released"]
                /\ UNCHANGED <<semQueue, semJobs>>
  /\ UNCHANGED semLimit /\ UNCHANGED semOthers

\* The next microtask runs.
Semaphore_microtask ==
  /\ semJobs # <<>>
  /\ LET j == Head(semJobs)
         k == j.caller
     IN IF j.job = "acquire"
        THEN /\ semRunning' = semRunning + 1
             /\ semStatus' = [semStatus EXCEPT ![k] = "returned"]
             /\ semJobs' = Append(Tail(semJobs), SemJob("caller", k))
        ELSE /\ semStatus' = [semStatus EXCEPT ![k] = "holding"]
             /\ semJobs' = Tail(semJobs)
             /\ UNCHANGED semRunning
  /\ UNCHANGED <<semLimit, semQueue>> /\ UNCHANGED semOthers

semIdle ==
  /\ semLimit = 1 /\ semRunning = 0 /\ semQueue = <<>> /\ semStatus = <<>>
  /\ semJobs = <<>>

\* new Semaphore(limit), and callers that have not called acquire() yet.
semInit ==
  /\ semLimit \in 1..MaxCallers
  /\ semRunning = 0 /\ semQueue = <<>> /\ semJobs = <<>>
  /\ semStatus = [k \in 1..MaxCallers |-> "idle"]

semNext == Semaphore_acquire \/ Semaphore_release \/ Semaphore_microtask

\* ------------------------------ agents/04-asynchronous-javascript.md: AsyncQueue
\* process(), from its call to its return or to its await: nothing happens
\* while `this.processing || this.queue.length === 0`; otherwise the flag is
\* set, the oldest entry is shifted and its asyncFn() is called. q holds
\* processing, queue and the tasks started so far.
agentAsyncQueue_process_flagless(q) ==
  IF q.processing \/ q.queue = <<>> THEN q
  ELSE [processing |-> FALSE, queue |-> Tail(q.queue),
        started |-> Append(q.started, Head(q.queue))]

agentAsyncQueue_process(q) ==
  IF q.processing \/ q.queue = <<>> THEN q
  ELSE [processing |-> TRUE, queue |-> Tail(q.queue),
        started |-> Append(q.started, Head(q.queue))]

\* add(asyncFn): the executor pushes the entry and calls process().
agentAsyncQueue_add ==
  /\ Len(aTasks) < MaxAdds
  /\ \E outcome \in {"fulfilled", "rejected"} :
       LET k == Len(aTasks) + 1
           q == agentAsyncQueue_process([processing |-> processing,
                                         queue |-> Append(aQueue, k),
                                         started |-> aStarted])
       IN /\ aTasks' = Append(aTasks, outcome)
          /\ processing' = q.processing
          /\ aQueue' = q.queue
          /\ aStarted' = q.started
          /\ aStatus' = StatusAfter(Append(aStatus, "queued"), q.started)
  /\ UNCHANGED aJobs /\ UNCHANGED aOthers

\* The promise of the running asyncFn() settles: the continuation of the
\* await is queued as a microtask.
agentAsyncQueue_taskSettles ==
  /\ \E k \in 1..Len(aTasks) :
        /\ aStatus[k] = "running"
        /\ aStatus' = [aStatus EXCEPT ![k] = "settled"]
        /\ aJobs' = Append(aJobs, k)
  /\ UNCHANGED <<processing, aQueue, aTasks, aStarted>> /\ UNCHANGED aOthers

\* process() resumes after the await: resolve or reject, then the finally
\* block, `this.processing = false; this.process()`.
agentAsyncQueue_resume ==
  /\ aJobs # <<>>
  /\ LET k == Head(aJobs)
         q == agentAsyncQueue_process([processing |-> FALSE, queue |-> aQueue,
                                       started |-> aStarted])
     IN /\ processing' = q.processing
        /\ aQueue' = q.queue
        /\ aStarted' = q.started
        /\ aStatus' = StatusAfter([aStatus EXCEPT ![k] = "done"], q.started)
        /\ aJobs' = Tail(aJobs)
  /\ UNCHANGED aTasks /\ UNCHANGED aOthers

aIdle ==
  /\ processing = FALSE /\ aQueue = <<>> /\ aTasks = <<>> /\ aStatus = <<>>
  /\ aStarted = <<>> /\ aJobs = <<>>

\* new AsyncQueue(): the state of an idle queue.
aInit == aIdle

aNext == agentAsyncQueue_add \/ agentAsyncQueue_taskSettles \/ agentAsyncQueue_resume

\* --------------------------------------- ASYNC-AWAIT-GUIDE.md: debounceAsync
\* A call of the wrapper: the executor clears the timeout timeoutId names,
\* stores its resolve and reject functions in the shared variables and sets
\* a new timeout.
debounceAsync_call ==
  /\ Len(dbFn) < MaxCalls
  /\ \E outcome \in {"fulfilled", "rejected"} :
       LET k == Len(dbFn) + 1
           cleared == IF timeoutId # 0 /\ dbStatus[timeoutId] = "timer"
                      THEN [dbStatus EXCEPT ![timeoutId] = "cleared"]
                      ELSE dbStatus
       IN /\ dbFn' = Append(dbFn, outcome)
          /\ dbStatus' = Append(cleared, "timer")
          /\ dbPromise' = Append(dbPromise, [args |-> 0, outcome |-> "pending"])
          /\ timeoutId' = k
          /\ pendingResolve' = k
  /\ UNCHANGED dbJobs /\ UNCHANGED dbOthers

\* The timeout of a call fires: its callback calls fn with the arguments of
\* that call and suspends at the await.
debounceAsync_timeout ==
  /\ \E k \in 1..Len(dbFn) :
        /\ dbStatus[k] = "timer"
        /\ dbStatus' = [dbStatus EXCEPT ![k] = "running"]
  /\ UNCHANGED <<dbFn, dbPromise, timeoutId, pendingResolve, dbJobs>>
  /\ UNCHANGED dbOthers

\* The promise fn returned settles: the continuation of the await is queued.
debounceAsync_fnSettles ==
  /\ \E k \in 1..Len(dbFn) :
        /\ dbStatus[k] = "running"
        /\ dbStatus' = [dbStatus EXCEPT ![k] = "settled"]
        /\ dbJobs' = Append(dbJobs, k)
  /\ UNCHANGED <<dbFn, dbPromise, timeoutId, pendingResolve>>
  /\ UNCHANGED dbOthers

\* The callback resumes: `pendingResolve(result)` or, in the catch,
\* `pendingReject(error)`, which settle the promise they belong to unless it
\* is settled already.
debounceAsync_resume ==
  /\ dbJobs # <<>>
  /\ LET k == Head(dbJobs)
     IN /\ dbPromise' =
             IF dbPromise[pendingResolve].outcome = "pending"
             THEN [dbPromise EXCEPT ![pendingResolve] =
                     [args |-> k, outcome |-> dbFn[k]]]
             ELSE dbPromise
        /\ dbStatus' = [dbStatus EXCEPT ![k] = "done"]
        /\ dbJobs' = Tail(dbJobs)
  /\ UNCHANGED <<dbFn, timeoutId, pendingResolve>> /\ UNCHANGED dbOthers

dbIdle ==
  /\ dbFn = <<>> /\ dbStatus = <<>> /\ dbPromise = <<>> /\ timeoutId = 0
  /\ pendingResolve = 0 /\ dbJobs = <<>>

\* debounceAsync(fn, delay): the wrapper before its first call.
dbInit == dbIdle

dbNext ==
  \/ debounceAsync_call
  \/ debounceAsync_timeout
  \/ debounceAsync_fnSettles
  \/ debounceAsync_resume

\* --------------------------------------- ASYNC-AWAIT-GUIDE.md: throttleAsync
\* A call of the wrapper, to its return or to its await: outside the
\* throttle window it sets the flag and invokes fn; inside it returns
\* lastResult.
throttleAsync_call ==
  /\ Len(tFn) < MaxCalls
  /\ \E outcome \in {"fulfilled", "rejected"} :
       /\ tFn' = Append(tFn, outcome)
       /\ IF ~inThrottle
          THEN /\ inThrottle' = TRUE
               /\ tStatus' = Append(tStatus, "running")
          ELSE /\ tStatus' = Append(tStatus, "returned")
               /\ UNCHANGED inThrottle
  /\ UNCHANGED <<lastResult, tTimers, tJobs>> /\ UNCHANGED tOthers

\* The promise fn returned settles: the continuation of the await is queued.
throttleAsync_fnSettles ==
  /\ \E k \in 1..Len(tFn) :
        /\ tStatus[k] = "running"
        /\ tStatus' = [tStatus EXCEPT ![k] = "settled"]
        /\ tJobs' = Append(tJobs, k)
  /\ UNCHANGED <<inThrottle, lastResult, tFn, tTimers>> /\ UNCHANGED tOthers

\* The wrapper resumes after the await. A fulfilled fn: the assignment to
\* lastResult, the setTimeout and the return. A rejected fn: the await
\* throws and the wrapper's promise is rejected.
throttleAsync_resume ==
  /\ tJobs # <<>>
  /\ LET k == Head(tJobs)
     IN /\ IF tFn[k] = "fulfilled"
           THEN /\ lastResult' = k
                /\ tTimers' = tTimers + 1
                /\ tStatus' = [tStatus EXCEPT ![k] = "returned"]
           ELSE /\ tStatus' = [tStatus EXCEPT ![k] = "threw"]
                /\ UNCHANGED <<lastResult, tTimers>>
        /\ tJobs' = Tail(tJobs)
  /\ UNCHANGED <<inThrottle, tFn>> /\ UNCHANGED tOthers

\* `limit` ms have passed: `() => { inThrottle = false; }`.
throttleAsync_timeout ==
  /\ tTimers > 0
  /\ tTimers' = tTimers - 1
  /\ inThrottle' = FALSE
  /\ UNCHANGED <<lastResult, tFn, tStatus, tJobs>> /\ UNCHANGED tOthers

tIdle ==
  /\ inThrottle = FALSE /\ lastResult = 0 /\ tFn = <<>> /\ tStatus = <<>>
  /\ tTimers = 0 /\ tJobs = <<>>

\* throttleAsync(fn, limit): the wrapper before its first call.
tInit == tIdle

tNext ==
  \/ throttleAsync_call
  \/ throttleAsync_fnSettles
  \/ throttleAsync_resume
  \/ throttleAsync_timeout

\* ---------------------------------------- ASYNC-AWAIT-GUIDE.md: batchProcess
\* An argument of Array.prototype.slice as an offset into an array of n
\* elements: a negative one counts from the end, and both are clamped.
SliceOffset(n, k) ==
  IF k < 0 THEN (IF n + k < 0 THEN 0 ELSE n + k)
  ELSE (IF k > n THEN n ELSE k)

\* tasks.slice(start, end), as the tasks it holds (task k is tasks[k-1]).
TaskSlice(n, start, end) ==
  LET s == SliceOffset(n, start)
      e == SliceOffset(n, end)
  IN [j \in 1..(IF e > s THEN e - s ELSE 0) |-> s + j]

\* The loop condition `i < tasks.length` and, when it holds, the slice and
\* `batch.map(fn => fn())`: every task of the batch is started. Otherwise
\* `return results`. (i only goes down when batchSize is negative; the
\* turns are followed down to i = -tasks.length - 1.)
batchProcess_turn ==
  /\ bpc = "loop"
  /\ bI >= 0 - bTasks - 1
  /\ IF bI < bTasks
     THEN LET next == TaskSlice(bTasks, bI, bI + batchSize)
          IN /\ batch' = next
             /\ bStatus' = [k \in 1..bTasks |->
                              IF \E j \in 1..Len(next) : next[j] = k
                              THEN "running" ELSE bStatus[k]]
             /\ bpc' = "await"
     ELSE /\ bpc' = "returned"
          /\ UNCHANGED <<batch, bStatus>>
  /\ UNCHANGED <<bTasks, batchSize, bI, bResults>> /\ UNCHANGED bOthers

\* A running task fulfils.
batchProcess_taskSettles ==
  /\ \E k \in 1..bTasks :
        /\ bStatus[k] = "running"
        /\ bStatus' = [bStatus EXCEPT ![k] = "fulfilled"]
  /\ UNCHANGED <<bpc, bTasks, batchSize, bI, batch, bResults>>
  /\ UNCHANGED bOthers

\* Promise.all is fulfilled, with the values in the order of the batch:
\* `results.push(...batchResults)` and `i += batchSize`.
batchProcess_resume ==
  /\ bpc = "await"
  /\ \A j \in 1..Len(batch) : bStatus[batch[j]] = "fulfilled"
  /\ bResults' = bResults \o batch
  /\ bI' = bI + batchSize
  /\ bpc' = "loop"
  /\ UNCHANGED <<bTasks, batchSize, batch, bStatus>> /\ UNCHANGED bOthers

bIdle ==
  /\ bpc = "idle" /\ bTasks = 0 /\ batchSize = 1 /\ bI = 0 /\ batch = <<>>
  /\ bStatus = <<>> /\ bResults = <<>>

\* batchProcess(tasks, batchSize): `const results = []; let i = 0`.
bInit ==
  /\ bpc = "loop" /\ bI = 0 /\ batch = <<>> /\ bResults = <<>>
  /\ bTasks \in 0..MaxTasks
  /\ batchSize \in (0 - MaxTasks)..MaxTasks
  /\ bStatus = [k \in 1..bTasks |-> "new"]

bNext == batchProcess_turn \/ batchProcess_taskSettles \/ batchProcess_resume

\* ------------------------------------------------------------ specifications
toolsIdle == vIdle /\ sIdle /\ dIdle /\ fIdle /\ cIdle
asyncIdle == pIdle /\ qIdle /\ mIdle /\ rIdle /\ semIdle /\ aIdle /\ dbIdle /\ tIdle /\ bIdle

\* validate-fundamentals.js alone.
InitValidate == vInit /\ sIdle /\ dIdle /\ fIdle /\ cIdle /\ asyncIdle
SpecValidate == InitValidate /\ [][vNext]_vars

\* es6-converter.js alone.
InitSuggest == sInit /\ vIdle /\ dIdle /\ fIdle /\ cIdle /\ asyncIdle
SpecSuggest == InitSuggest /\ [][sNext]_vars

\* dom-analyzer.js alone.
InitDom == dInit /\ vIdle /\ sIdle /\ fIdle /\ cIdle /\ asyncIdle
SpecDom == InitDom /\ [][dNext]_vars

\* calculateComplexity alone.
InitComplexity == cInit /\ vIdle /\ sIdle /\ dIdle /\ fIdle /\ asyncIdle
SpecComplexity == InitComplexity /\ [][cNext]_vars

\* analyze-functions.js alone.
InitFn == fInit /\ vIdle /\ sIdle /\ dIdle /\ cIdle /\ asyncIdle
SpecFn == InitFn /\ [][fNext]_vars

\* parallelLimit alone.
InitParallelLimit == pInit /\ toolsIdle /\ qIdle /\ mIdle /\ rIdle /\ semIdle /\ aIdle /\ dbIdle /\ tIdle /\ bIdle
SpecParallelLimit == InitParallelLimit /\ [][pNext]_vars

\* The AsyncQueue of the promise utilities.
InitAsyncQueue == qInit /\ toolsIdle /\ pIdle /\ mIdle /\ rIdle /\ semIdle /\ aIdle /\ dbIdle /\ tIdle /\ bIdle
SpecAsyncQueue == InitAsyncQueue /\ [][qNext]_vars
\* Every pending promise of a task settles and every queued microtask runs.
SpecAsyncQueueFair ==
  SpecAsyncQueue /\ WF_vars(AsyncQueue_taskSettles) /\ WF_vars(AsyncQueue_resume)

\* The mutex of the promise utilities and its callers.
InitMutex == mInit /\ toolsIdle /\ pIdle /\ qIdle /\ rIdle /\ semIdle /\ aIdle /\ dbIdle /\ tIdle /\ bIdle
SpecMutex == InitMutex /\ [][mNext]_vars

\* retry called once.
InitRetry == rInit /\ toolsIdle /\ pIdle /\ qIdle /\ mIdle /\ semIdle /\ aIdle /\ dbIdle /\ tIdle /\ bIdle
SpecRetry == InitRetry /\ [][rNext]_vars

InitSemaphore == semInit /\ toolsIdle /\ pIdle /\ qIdle /\ mIdle /\ rIdle /\ aIdle /\ dbIdle /\ tIdle /\ bIdle
SpecSemaphore == InitSemaphore /\ [][semNext]_vars

InitSerialQueue == aInit /\ toolsIdle /\ pIdle /\ qIdle /\ mIdle /\ rIdle /\ semIdle /\ dbIdle /\ tIdle /\ bIdle
SpecSerialQueue == InitSerialQueue /\ [][aNext]_vars
\* Every pending promise of a task settles and every queued microtask runs.
SpecSerialQueueFair ==
  /\ SpecSerialQueue
  /\ WF_vars(agentAsyncQueue_taskSettles) /\ WF_vars(agentAsyncQueue_resume)

InitDebounce == dbInit /\ toolsIdle /\ pIdle /\ qIdle /\ mIdle /\ rIdle /\ semIdle /\ aIdle /\ tIdle /\ bIdle
SpecDebounce == InitDebounce /\ [][dbNext]_vars

InitThrottle == tInit /\ toolsIdle /\ pIdle /\ qIdle /\ mIdle /\ rIdle /\ semIdle /\ aIdle /\ dbIdle /\ bIdle
SpecThrottle == InitThrottle /\ [][tNext]_vars
\* Pending promises settle, queued microtasks run and set timeouts fire.
SpecThrottleFair ==
  /\ SpecThrottle
  /\ WF_vars(throttleAsync_fnSettles) /\ WF_vars(throttleAsync_resume)
  /\ WF_vars(throttleAsync_timeout)

InitBatch == bInit /\ toolsIdle /\ pIdle /\ qIdle /\ mIdle /\ rIdle /\ semIdle /\ aIdle /\ dbIdle /\ tIdle
SpecBatch == InitBatch /\ [][bNext]_vars

\* validate-fundamentals.js or dom-analyzer.js: the tools of the exit-code
\* contract that have an error severity.
InitExit == InitValidate \/ InitDom
SpecExit == InitExit /\ [][vNext \/ dNext]_vars

\* validate-fundamentals.js or es6-converter.js: the tools that report a
\* line and a column for every match.
InitScan == InitValidate \/ InitSuggest
SpecScan == InitScan /\ [][vNext \/ sNext]_vars

\* ------------------------------------------------------------- properties
SeqToSet(seq) == {seq[k] : k \in 1..Len(seq)}

\* The findings of a validateFile results object, whatever array holds them.
Findings(results) ==
  SeqToSet(results.errors) \cup SeqToSet(results.warnings) \cup SeqToSet(results.info)

\* The findings of an analyzeFile (es6-converter) results object.
es6_Findings(results) ==
  SeqToSet(results.byCategory.error) \cup SeqToSet(results.byCategory.warning)
    \cup SeqToSet(results.byCategory.info)

HasErrorFinding(results) == \E f \in Findings(results) : f.severity = "error"

\* validateFile is at work on vfs[fileIdx] and vResults is its results object.
vInFile == vpc \in {"scan", "best", "return"}

\* The findings made from a pattern match that the validator (in the file at
\* hand) and the suggester hold, each with the buffer it was found in.
MatchFindings ==
  { [content |-> vfs[fileIdx].content, finding |-> f] :
      f \in {g \in (IF vInFile THEN Findings(vResults) ELSE {}) : g.index # -1} }
  \cup { [content |-> code, finding |-> f] : f \in es6_Findings(sResults) }

\* C1: in the fundamentals validator (single file and --dir) and in the
\* markup analyzer, a run that analysed its input exits with 0 if and only
\* if no analysed input has an error-severity finding, which is when every
\* result's passed flag is true; otherwise it exits with 1.
C1_ExitCodeParity ==
  /\ (vpc = "exited" /\ args # "none") =>
       /\ exitCode \in {0, 1}
       /\ exitCode = 0 <=> \A k \in 1..Len(vAll) : ~HasErrorFinding(vAll[k])
       /\ exitCode = 0 <=> \A k \in 1..Len(vAll) : vAll[k].passed
  /\ (dpc = "exited" /\ dArgs = "file" /\ dExists) =>
       /\ dExit \in {0, 1}
       /\ dExit = 0 <=> \A k \in 1..Len(issues) : issues[k].type # "error"

\* A --dir run over three files of which one passed and a later one failed.
C1_Witness ==
  /\ vpc = "exited" /\ args = "dir" /\ Len(vAll) = 3
  /\ vAll[1].passed /\ ~vAll[2].passed /\ vAll[3].passed
  /\ exitCode = 1

\* C2: in the suggester, an input with no error-severity finding exits with
\* code 0 even when it has warning-severity findings; an input that is one
\* var declaration yields one warning at its line and exit code 0.
C2_WarningsDoNotFail ==
  (spc = "exited" /\ sArgs = "file" /\ sExists) =>
    /\ sResults.byCategory.error = <<>> => sExit = 0
    /\ code = <<"v","a","r"," ","x","=">> =>
         /\ Len(sResults.byCategory.warning) = 1
         /\ sResults.byCategory.warning[1].line = 1
         /\ sExit = 0

\* C3: in validateFile, results.passed is true if and only if
\* results.errors is empty, during the analysis and in every returned
\* result, also when the file cannot be read.
C3_PassedIffNoErrors ==
  /\ vResults.passed <=> vResults.errors = <<>>
  /\ \A k \in 1..Len(vAll) : vAll[k].passed <=> vAll[k].errors = <<>>

\* validateFile is about to return from its catch block.
C3_Witness ==
  /\ vpc = "return" /\ ~vfs[fileIdx].readable
  /\ ~vResults.passed /\ Len(vResults.errors) = 1

\* C4: analyzeFile of the function analyzer returns the same result for the
\* same unchanged file whenever it is called in one process, whatever was
\* analysed before.
C4_SameFileSameResult ==
  fLast.file = fFirst.file => fLast.result = fFirst.result

\* C5: a match of a rule with an exceptions list is never reported when its
\* text equals, or is contained in, one of the rule's exception strings.
C5_ExceptionsSuppressed ==
  vInFile =>
    \A f \in Findings(vResults) : \A k \in 1..Len(RULES) :
       (f.index # -1 /\ f.rule = RULES[k].name) =>
          \A ex \in RULES[k].exceptions : ~Includes(ex, f.match)

\* The rule id of the finding for a file that cannot be read.
ReadErrorOnly(results, ruleId) ==
  /\ Len(results.errors) = 1
  /\ results.errors[1].rule = ruleId
  /\ results.errors[1].severity = "error"
  /\ results.warnings = <<>> /\ results.info = <<>>

UnreadableInBatch(ruleId) ==
  (args = "dir" /\ vpc = "exited") =>
    /\ Len(vAll) = Len(vfs)
    /\ \A k \in 1..Len(vfs) :
         IF vfs[k].readable
         THEN /\ \A f \in Findings(vAll[k]) : f.rule \notin {ruleId, "file-read"}
              /\ \E f \in Findings(vAll[k]) : f.rule = "use-strict"
         ELSE ReadErrorOnly(vAll[k], ruleId)
    /\ (\E k \in 1..Len(vfs) : ~vfs[k].readable) => exitCode = 1

C7_DepthNonNegative ==
  dpc \in {"estimateDepth", "report", "exited"} => depth >= 0

\* C8: for every finding made from a pattern match, the text of the buffer
\* line with the reported line number contains the finding's matched text.
C8_LineContainsMatch ==
  \A m \in MatchFindings :
     /\ m.finding.line \in 1..Len(SplitLines(m.content))
     /\ Includes(SplitLines(m.content)[m.finding.line], m.finding.match)

\* C9: for every finding made from a pattern match, the reported line is 1
\* plus the number of newline characters strictly before the match's start
\* offset, and lies between 1 and the number of lines of the input.
C9_LineOfOffset ==
  \A m \in MatchFindings :
     /\ m.finding.line = 1 + CountNewlines(Substring(m.content, 0, m.finding.index))
     /\ m.finding.line >= 1
     /\ m.finding.line <= 1 + CountNewlines(m.content)

\* A finding on the second line whose match starts at the second newline.
C9_Witness ==
  \E m \in MatchFindings :
     /\ m.finding.line = 2 /\ m.finding.index > 0
     /\ At(m.content, m.finding.index) = "\n"

\* C10: a match starting at offset 0 is reported at line 1, column 1; a match
\* starting at a newline character is reported on the line before that
\* newline, at column length of that line + 1; every column is at least 1.
C10_ColumnOfOffset ==
  \A m \in MatchFindings :
     /\ m.finding.column >= 1
     /\ m.finding.index = 0 => (m.finding.line = 1 /\ m.finding.column = 1)
     /\ At(m.content, m.finding.index) = "\n" =>
          /\ m.finding.line = 1 + CountNewlines(Substring(m.content, 0, m.finding.index))
          /\ m.finding.column = Len(SplitLines(m.content)[m.finding.line]) + 1

\* The number of matches the scan loop of analyzeFile finds for a pattern,
\* from a given lastIndex on.
RECURSIVE es6_MatchCount(_, _, _)
es6_MatchCount(name, s, from) ==
  LET match == PatternExec(name, s, from)
  IN IF match = Null THEN 0 ELSE 1 + es6_MatchCount(name, s, match.end)

RECURSIVE es6_TotalMatches(_, _)
es6_TotalMatches(s, k) ==
  IF k > Len(PATTERNS) THEN 0
  ELSE es6_MatchCount(PATTERNS[k].name, s, 0) + es6_TotalMatches(s, k + 1)

SeverityOfRule(name) ==
  IF name \in {"use-strict", "nesting-depth"} THEN {"warning"}
  ELSE IF name = "line-length" THEN {"info"}
  ELSE IF name = "file-read" THEN {"error"}
  ELSE {RULES[k].severity : k \in {j \in 1..Len(RULES) : RULES[j].name = name}}

PartitionedBySeverity(results) ==
  /\ \A f \in SeqToSet(results.errors) : f.severity = "error"
  /\ \A f \in SeqToSet(results.warnings) : f.severity = "warning"
  /\ \A f \in SeqToSet(results.info) : f.severity = "info"
  /\ \A f \in Findings(results) : SeverityOfRule(f.rule) = {f.severity}

\* C11: every finding sits in exactly the severity partition its rule
\* declares and none is dropped or counted twice: in the suggester,
\* totalIssues is always the sum of the lengths of the error, warning and
\* info partitions (and, once the scan is over, the number of matches);
\* every finding of a partition comes from a pattern of that severity; in
\* validateFile every entry of errors, warnings and info has the severity of
\* its array and of its rule.
C11_SeverityPartition ==
  /\ sResults.totalIssues = Len(sResults.byCategory.error)
       + Len(sResults.byCategory.warning) + Len(sResults.byCategory.info)
  /\ spc \in {"report", "exited"} /\ sArgs = "file" /\ sExists =>
       sResults.totalIssues = es6_TotalMatches(code, 1)
  /\ \A sev \in {"error", "warning", "info"} :
       \A f \in SeqToSet(sResults.byCategory[sev]) :
          \E k \in 1..Len(PATTERNS) :
             PATTERNS[k].name = f.pattern /\ PATTERNS[k].severity = sev
  /\ PartitionedBySeverity(vResults)
  /\ \A k \in 1..Len(vAll) : PartitionedBySeverity(vAll[k])

\* validateFile returns a result with a finding in each of the three arrays.
C11_Witness ==
  /\ vpc = "return"
  /\ vResults.errors # <<>> /\ vResults.warnings # <<>> /\ vResults.info # <<>>
  /\ \E f \in SeqToSet(vResults.info) : f.index # -1

\* The markup tokens of a buffer, read shape by shape: +1 for the opening
\* tag of a non-void element, -1 for a closing tag, 0 for the tag of a void
\* element, a tag ending in "/>" and a character of text; 2 where the buffer
\* holds anything else (a comment delimiter).
RECURSIVE MarkupTokens(_, _)
MarkupTokens(s, i) ==
  IF i >= Len(s) THEN <<>>
  ELSE IF LitAt(s, i, <<"<","p",">">>) THEN <<1>> \o MarkupTokens(s, i + 3)
  ELSE IF LitAt(s, i, <<"<","/","p",">">>) THEN <<-1>> \o MarkupTokens(s, i + 4)
  ELSE IF LitAt(s, i, <<"<","b","r",">">>) THEN <<0>> \o MarkupTokens(s, i + 4)
  ELSE IF LitAt(s, i, <<"<","p","/",">">>) THEN <<0>> \o MarkupTokens(s, i + 4)
  ELSE IF LitAt(s, i, <<"<","i","m","g",">">>) THEN <<0>> \o MarkupTokens(s, i + 5)
  ELSE IF LitAt(s, i, <<"<","i","m","g"," ","a","l","t","=","a",">">>)
       THEN <<0>> \o MarkupTokens(s, i + 11)
  ELSE IF At(s, i) = "x" THEN <<0>> \o MarkupTokens(s, i + 1)
  ELSE <<2>>

\* The number of elements open after the first k tokens.
RECURSIVE OpenAfter(_, _)
OpenAfter(tokens, k) == IF k = 0 THEN 0 ELSE OpenAfter(tokens, k - 1) + tokens[k]

ProperlyNested(tokens) ==
  /\ \A k \in 1..Len(tokens) : tokens[k] \in {-1, 0, 1}
  /\ \A k \in 0..Len(tokens) : OpenAfter(tokens, k) >= 0
  /\ OpenAfter(tokens, Len(tokens)) = 0

MaxOpen(tokens) ==
  CHOOSE m \in 0..Len(tokens) :
     /\ \E k \in 0..Len(tokens) : OpenAfter(tokens, k) = m
     /\ \A k \in 0..Len(tokens) : OpenAfter(tokens, k) <= m

IsOneComment(s) ==
  /\ Len(s) >= 7
  /\ LitAt(s, 0, <<"<","!","-","-">>)
  /\ \A i \in 4..(Len(s) - 3) :
        LitAt(s, i, <<"-","-",">">>) <=> i = Len(s) - 3

\* C13: text inside a comment never changes estimateDepth's depth counter or
\* the reported maxDepth, whatever the comment contains.
C13_CommentsIgnored ==
  (dpc \in {"estimateDepth", "report", "exited"} /\ IsOneComment(html)) =>
     /\ depth = 0 /\ maxDepth = 0
     /\ dpc # "estimateDepth" => statsMaxDepth = 0

\* The decision points of a buffer, read construct by construct: one for an
\* "else if(", an "if(", a "for(", a ternary, an "&&" and an "||".
RECURSIVE DecisionPoints(_, _)
DecisionPoints(s, i) ==
  IF i >= Len(s) THEN 0
  ELSE IF LitAt(s, i, <<"e","l","s","e"," ","i","f","(">>)
       THEN 1 + DecisionPoints(s, i + 8)
  ELSE IF LitAt(s, i, <<"i","f","(">>) THEN 1 + DecisionPoints(s, i + 3)
  ELSE IF LitAt(s, i, <<"f","o","r","(">>) THEN 1 + DecisionPoints(s, i + 4)
  ELSE IF LitAt(s, i, <<"?","x",":">>) THEN 1 + DecisionPoints(s, i + 3)
  ELSE IF LitAt(s, i, <<"&","&">>) THEN 1 + DecisionPoints(s, i + 2)
  ELSE IF LitAt(s, i, <<"|","|">>) THEN 1 + DecisionPoints(s, i + 2)
  ELSE DecisionPoints(s, i + 1)

\* C14: calculateComplexity returns 1 plus the number of decision points of
\* the buffer, each if, else-if, for, ternary, && and || counting exactly one.
C14_OnePerDecisionPoint ==
  cpc = "returned" => complexity = 1 + DecisionPoints(cContent, 0)

\* C15: when the input path given on the command line does not exist, the
\* markup analyzer exits with a nonzero code other than the code 1 of an
\* analysis failure.
C15_NotFoundCodeDistinct ==
  (dpc = "exited" /\ dArgs = "file" /\ ~dExists) => dExit \notin {0, 1}

\* The findings of a partition that come from pattern matches are in
\* ascending order of line and, on one line, of column.
OrderedByPosition(partition) ==
  \A i, j \in 1..Len(partition) :
     (i < j /\ partition[i].index # -1 /\ partition[j].index # -1) =>
        \/ partition[i].line < partition[j].line
        \/ /\ partition[i].line = partition[j].line
           /\ partition[i].column <= partition[j].column

\* C16: within each severity partition of a result (errors, warnings and
\* info of validateFile; byCategory.error, .warning and .info of the
\* suggester) the findings are in ascending order of line, then of column,
\* also when they come from different rules.
C16_OrderedByLineThenColumn ==
  /\ OrderedByPosition(vResults.errors)
  /\ OrderedByPosition(vResults.warnings)
  /\ OrderedByPosition(vResults.info)
  /\ \A sev \in {"error", "warning", "info"} :
        OrderedByPosition(sResults.byCategory[sev])

\* C17: in --dir mode no file is read, scanned or checked while the report
\* of an earlier file has not been printed.
C17_OneFileAtATime ==
  (args = "dir" /\ vpc \in {"validateFile", "scan", "best", "return"}) =>
     printed >= fileIdx - 1

\* C18: in the suggester's analyzeFile, when a rule's suggestion function
\* throws for a match, the finding of that match is still emitted and
\* counted, and the remaining matches and rules are still analysed: the call
\* returns a result that holds a finding for every match.
C18_SuggestionFailureTolerated ==
  (sArgs = "module" /\ sThrows /\ spc \in {"returned", "threw"}) =>
     /\ spc = "returned"
     /\ sResults.totalIssues = es6_TotalMatches(code, 1)

\* The matches behind the findings of a partition: rule, start offset and
\* length (none for the findings that come from no match).
vEntries(partition) ==
  [k \in 1..Len(partition) |->
     [name |-> partition[k].rule, index |-> partition[k].index,
      len |-> Len(partition[k].match)]]

sEntries(partition) ==
  [k \in 1..Len(partition) |->
     [name |-> partition[k].pattern, index |-> partition[k].index,
      len |-> Len(partition[k].match)]]

\* Where the search for entry j started: the end of the match of the same
\* rule before it, or 0.
PrevEnd(entries, j) ==
  LET before == {i \in 1..(j - 1) : entries[i].name = entries[j].name}
  IN IF before = {} THEN 0
     ELSE LET i == CHOOSE k \in before : \A m \in before : m <= k
          IN entries[i].index + entries[i].len

\* Every match is at least one character long, starts at or after the end
\* of the match of its rule before it, and is the first place from there on
\* where the rule's pattern matches.
LeftToRight(entries, s, PatternOf(_, _, _)) ==
  \A j \in 1..Len(entries) :
     entries[j].index # -1 =>
        /\ entries[j].len >= 1
        /\ entries[j].index + entries[j].len <= Len(s)
        /\ entries[j].index >= PrevEnd(entries, j)
        /\ \A i \in PrevEnd(entries, j)..(entries[j].index - 1) :
              PatternOf(entries[j].name, s, i) = -1

ScansLeftToRight ==
  /\ vInFile =>
       /\ LeftToRight(vEntries(vResults.errors), vfs[fileIdx].content, RulePattern)
       /\ LeftToRight(vEntries(vResults.warnings), vfs[fileIdx].content, RulePattern)
       /\ LeftToRight(vEntries(vResults.info), vfs[fileIdx].content, RulePattern)
       /\ lastIndex <= Len(vfs[fileIdx].content)
  /\ \A sev \in {"error", "warning", "info"} :
        LeftToRight(sEntries(sResults.byCategory[sev]), code, PatternAt)
  /\ sLastIndex <= Len(code)

\* What is left of a scan: the rules still to apply, and for the rule at
\* hand the part of the buffer behind lastIndex.
ScanMeasure(rulesLeft, len, last) == rulesLeft * (len + 1) + (len - last)

vScanMeasure ==
  ScanMeasure(Len(RULES) - ruleIdx, Len(vfs[fileIdx].content), lastIndex)

sScanMeasure == ScanMeasure(Len(PATTERNS) - patIdx, Len(code), sLastIndex)

\* Every turn of a scan loop that stays in the loop brings the scan nearer
\* to its end.
ScanAdvances ==
  /\ (vpc = "scan" /\ vpc' = "scan" /\ vResults' # vResults) =>
        lastIndex' > lastIndex
  /\ (vpc = "scan" /\ vpc' = "scan") =>
        (vScanMeasure' < vScanMeasure /\ vScanMeasure' >= 0)
  /\ (spc = "scan" /\ spc' = "scan" /\ sResults' # sResults) =>
        sLastIndex' > sLastIndex
  /\ (spc = "scan" /\ spc' = "scan") =>
        (sScanMeasure' < sScanMeasure /\ sScanMeasure' >= 0)

\* C19: for each rule the scan loops of validateFile and of the suggester's
\* analyzeFile report the matches left to right without overlap, each match
\* at least one character long and starting at or after the end of the
\* match of the same rule before it; and every scan ends, because each turn
\* of the loop moves lastIndex forward by at least one character or goes on
\* to the next rule.
C19_ScanTerminates == []ScansLeftToRight /\ [][ScanAdvances]_vars

\* Two matches of one rule, one right after the other, have been reported.
C19_Witness ==
  /\ spc = "exited"
  /\ Len(sResults.byCategory.warning) = 2
  /\ sResults.byCategory.warning[1].pattern = sResults.byCategory.warning[2].pattern
  /\ sResults.byCategory.warning[2].index =
       sResults.byCategory.warning[1].index + Len(sResults.byCategory.warning[1].match)

\* The tasks that were started and have not settled.
Running == {k \in 1..Len(tasks) : status[k] = "running"}

\* C20: parallelLimit(tasks, limit) with limit >= 1 never has more than
\* limit tasks started and not yet settled, however the tasks' completions
\* interleave; when every task fulfils, it is fulfilled with the results in
\* the order of the tasks, whatever the order of completion.
C20_AtMostLimitRunning ==
  /\ Cardinality(Running) <= pLimit
  /\ Cardinality(executing) <= pLimit
  /\ ppc = "fulfilled" => pValue = [k \in 1..Len(tasks) |-> k]

\* Three tasks under limit 2 ran two at a time and finished out of order.
C20_Witness ==
  /\ ppc = "fulfilled" /\ Len(tasks) = 3 /\ pLimit = 2
  /\ settledOrder = <<2, 1, 3>>
\* The tasks whose fn() was called and whose await has not resumed yet.
qInFlight == {k \in 1..Len(qTasks) : qStatus[k] \in {"running", "settled"}}

C26_StartedOnceInOrder ==
  /\ [](/\ \A i \in 1..Len(qStarted) : qStarted[i] = i
        /\ \A k \in 1..Len(qTasks) :
             /\ qStatus[k] = "queued" <=> k > Len(qStarted)
             /\ qPromise[k] # "pending" => qPromise[k] = qTasks[k])
  /\ \A k \in 1..MaxTasks :
       (Len(qTasks) >= k) ~> (Len(qStarted) >= k /\ qPromise[k] = qTasks[k])

C26_Witness ==
  /\ qConcurrency = 2 /\ Len(qTasks) = 3
  /\ qPromise = <<"rejected", "fulfilled", "rejected">>

\* The callers that have been given the lock and have not released it.
mHolders == {k \in 1..MaxCallers : mStatus[k] \in {"granted", "holding"}}

\* C22: with every caller releasing once after its acquire() resolved, at
\* most one caller holds the mutex at any time, the flag is set whenever a
\* caller holds it or waits (so an acquire() made between a release() and
\* the resumption of the woken waiter queues behind it), and the lock is
\* granted in the order of the acquire() calls.
C22_MutualExclusion ==
  /\ Cardinality(mHolders) <= 1
  /\ (mHolders # {} \/ mQueue # <<>>) => locked
  /\ \A i \in 1..Len(mGrants) : mGrants[i] = mCalls[i]

\* A waiter was woken and has not resumed, a later caller queued behind it.
C22_Witness ==
  /\ \E k \in 1..MaxCallers :
        /\ mStatus[k] = "granted" /\ Len(mGrants) = 2 /\ mGrants[2] = k
  /\ mQueue # <<>>
  /\ Len(mCalls) = 3 /\ mCalls[2] = mGrants[2]

\* C23: retry with maxAttempts >= 1 invokes fn at most maxAttempts times and
\* never after an invocation fulfilled, resolving with that invocation's
\* value; when all maxAttempts invocations reject it rejects with the error
\* of the last one; onRetry is called once after each failed attempt but
\* the last, with delay = min(baseDelay * factor^(attempt-1), maxDelay).
C23_RetryContract ==
  /\ rCalls <= rOptions.maxAttempts
  /\ \A i \in 1..(rCalls - 1) : rFn[i] = "rejected"
  /\ rpc = "fulfilled" => rFn[rCalls] = "fulfilled" /\ rResult = rCalls
  /\ rpc = "rejected" =>
       /\ rCalls = rOptions.maxAttempts
       /\ rFn[rCalls] = "rejected" /\ rResult = rCalls
  /\ Len(rRetries) = (IF rpc \in {"fulfilled", "rejected"} THEN rCalls - 1
                      ELSE rCalls)
  /\ \A i \in 1..Len(rRetries) :
       /\ rRetries[i].attempt = i /\ rRetries[i].error = i
       /\ LET d == rOptions.baseDelay * Pow(rOptions.factor, i - 1)
          IN rRetries[i].delay =
               (IF d <= rOptions.maxDelay THEN d ELSE rOptions.maxDelay)

\* Three attempts failed; the second delay was capped by maxDelay.
C23_Witness ==
  /\ rpc = "rejected" /\ rCalls = 3 /\ Len(rRetries) = 2
  /\ rRetries[1].delay < rOptions.maxDelay
  /\ rRetries[2].delay = rOptions.maxDelay
  /\ rOptions.baseDelay * rOptions.factor > rOptions.maxDelay

\* The callers that have returned from acquire() and not called release().
semHolders == {k \in 1..MaxCallers : semStatus[k] \in {"returned", "holding"}}

\* C24: for a Semaphore(limit), under every interleaving of acquire()
\* calls, release() calls and resumptions of queued waiters, neither the
\* number of callers that have returned from acquire() and not yet called
\* release() nor the running counter exceeds limit.
C24_SemaphoreLimit ==
  /\ Cardinality(semHolders) <= semLimit
  /\ semRunning <= semLimit

\* C25: the one-at-a-time AsyncQueue never runs two tasks at once: while
\* an asyncFn has been started and has not settled no other one is
\* started; tasks start in the order they were added; and, the tasks all
\* settling, every added task is eventually started.
C25_OneAtATime ==
  /\ [](/\ Cardinality({k \in 1..Len(aTasks) :
                          aStatus[k] \in {"running", "settled"}}) <= 1
        /\ (\E k \in 1..Len(aTasks) : aStatus[k] = "running") => processing
        /\ \A i \in 1..Len(aStarted) : aStarted[i] = i
        /\ \A k \in 1..Len(aTasks) : aStatus[k] = "queued" <=> k > Len(aStarted))
  /\ \A k \in 1..MaxAdds : (Len(aTasks) >= k) ~> (Len(aStarted) >= k)

\* A task waits while another runs, after a first one was rejected.
C25_Witness ==
  /\ Len(aTasks) = 3 /\ aTasks[1] = "rejected"
  /\ aStatus = <<"done", "running", "queued">>

\* C27: every promise returned by a debounceAsync wrapper that settles is
\* settled with the outcome of fn applied to the arguments of that same
\* call, also when a new call arrives while the fn invocation of an earlier
\* call is pending.
C27_OwnResult ==
  \A k \in 1..Len(dbFn) :
     dbPromise[k].outcome # "pending" =>
       dbPromise[k].args = k /\ dbPromise[k].outcome = dbFn[k]

\* C28: after an invocation of fn through a throttleAsync wrapper has
\* settled, fulfilled or rejected, the inThrottle flag is eventually reset
\* to false: the wrapper never stays throttled for ever.
C28_ThrottleResets ==
  \A k \in 1..MaxCalls :
     (Len(tFn) >= k /\ tStatus[k] \in {"settled", "threw"}) ~> ~inThrottle

\* C29: batchProcess terminates for every finite list of tasks that all
\* fulfil and every integer batchSize, 0 and negative values included (every
\* turn of the loop brings i closer to tasks.length), returning one result
\* per task in task order; and no task of a later batch is started before
\* every task of the previous batch has fulfilled.
C29_BatchTerminates ==
  /\ [][bpc = "await" /\ bpc' = "loop" => bI' > bI]_vars
  /\ [](bpc = "returned" => bResults = [k \in 1..bTasks |-> k])
  /\ [](\A k \in 1..bTasks :
          bStatus[k] = "running" => \E j \in 1..Len(batch) : batch[j] = k)

\* The offsets of buffer s at which a loose comparison operator stands: an
\* `==` that is not part of `===` or `!==`, or a `!=` that is not part of
\* `!==`; those of the configured exceptions (`== null`, `!= null`) left out.
LooseComparisons(s) ==
  { i \in 0..(Len(s) - 1) :
      /\ \/ /\ LitAt(s, i, <<"=", "=">>)
            /\ ~InClass(s, i - 1, {"=", "!"})
         \/ LitAt(s, i, <<"!", "=">>)
      /\ ~InClass(s, i + 2, {"="})
      /\ ~LitAt(s, i + 2, <<" ", "n", "u", "l", "l">>) }

\* C30: the validator's looseEquality rule reports exactly the loose
\* comparisons: one error-severity finding for every `==` and `!=` other
\* than the configured exceptions, and none for strict comparisons, plain
\* assignments and compound operators.
C30_LooseEqualityExact ==
  vpc \in {"best", "return"} =>
    LET found == {f \in Findings(vResults) : f.rule = "looseEquality"}
    IN /\ Cardinality(found) = Cardinality(LooseComparisons(vfs[fileIdx].content))
       /\ \A f \in found : f.severity = "error"

====
